---- MODULE Spec2Model ----
(***************************************************************************)
(* Model of the LinkedIn job extractor (src/app.py,                        *)
(* src/utils/db_connection.py): the input validator, the relative-date     *)
(* resolver, the response normalizer inside extract_job_data_with_llm and  *)
(* the Process handler of main.                                            *)
(*                                                                         *)
(* Python values are tagged records: Str(s), Num(n), Null, Bool(b),        *)
(* List(seq), Dict(f) where f is a function from key strings to values.    *)
(* Python str is a TLA+ string; TLC evaluates Len, SubSeq and \o on it.    *)
(***************************************************************************)
EXTENDS Integers, Sequences, FiniteSets, TLC

VARIABLES
    vtext,      \* validate_job_posting_text: the argument `text`
    vresult,    \* validate_job_posting_text: the returned (is_valid, error_message)
    vpc,        \* "start" before the call, "done" after it, "idle" when unused
    x_text,     \* extract_job_data_with_llm: the argument raw_text
    x_key,      \* whether OPENAI_API_KEY is set in the environment
    x_secrets,  \* what st.secrets holds: "key", "no_key" or "no_file"
    x_backend,  \* what the chat-completion call does
    x_today,    \* the day datetime.now() falls on
    x_ret,      \* the returned (job_data, company_data)
    x_pc,       \* "start" before the call, "done" after it returned,
                \* "raised" after it raised, "idle" when unused
    text_area,               \* main: raw_text, the content of the text area
    processed_data,          \* st.session_state.processed_data
    processed_company_data,  \* st.session_state.processed_company_data
    insertion_success,       \* st.session_state.insertion_success
    backend_calls,           \* texts sent to the backend by the last Process run
    store_pc,                \* main's Store handler: "idle", or the call it waits in
    job_document_id,         \* its local job_document_id (0: not assigned)
    company_document_id,     \* its local company_document_id (0: not assigned)
    g_fn,       \* db_connection: the function being run, "idle" when none
    g_pc,       \* its position; "returned" / "raised" once it has ended
    g_data,     \* the record object passed to an insert, as it is now
    g_passed,   \* the record as it was when passed
    g_client,   \* the local variable `client`: "None" or "client"
    g_open,     \* MongoClient objects created by this call and not closed
    g_id,       \* result.inserted_id of insert_one (0: none)
    g_exc,      \* the exception on its way out of the try block ("" if none)
    g_out,      \* what the call returned or raised
    g_verified, \* the re-read by identifier found the document
    jobs,       \* the linkedin_jobs collection
    companies,  \* the companies collection
    g_calls     \* number of calls started

vvars == <<vtext, vresult, vpc>>

xvars == <<x_text, x_key, x_secrets, x_backend, x_today, x_ret, x_pc>>

mvars == <<text_area, processed_data, processed_company_data,
           insertion_success, backend_calls,
           store_pc, job_document_id, company_document_id>>

gvars == <<g_fn, g_pc, g_data, g_passed, g_client, g_open, g_id, g_exc, g_out,
           g_verified, jobs, companies, g_calls>>

vars == <<vvars, xvars, mvars, gvars>>

(***************************************************************************)
(* Python str primitives                                                   *)
(***************************************************************************)
Ch(s, i) == SubSeq(s, i, i)

\* F(x) with x evaluated once: a local assignment `v = x` followed by the
\* statements F(v)
Bind(x, F(_)) == F(x)

IsSpace(c) == c \in {" ", "\t", "\n", "\r"}

IsDigit(c) == c \in {"0", "1", "2", "3", "4", "5", "6", "7", "8", "9"}

UpperAlpha == "ABCDEFGHIJKLMNOPQRSTUVWXYZ"

LowerAlpha == "abcdefghijklmnopqrstuvwxyz"

LowerChar(c) ==
    IF \E i \in 1..26 : Ch(UpperAlpha, i) = c
    THEN Ch(LowerAlpha, CHOOSE i \in 1..26 : Ch(UpperAlpha, i) = c)
    ELSE c

UpperChar(c) ==
    IF \E i \in 1..26 : Ch(LowerAlpha, i) = c
    THEN Ch(UpperAlpha, CHOOSE i \in 1..26 : Ch(LowerAlpha, i) = c)
    ELSE c

RECURSIVE LowerRange(_, _, _)
LowerRange(s, lo, hi) ==
    IF lo > hi THEN ""
    ELSE IF lo = hi THEN LowerChar(Ch(s, lo))
    ELSE LET m == (lo + hi) \div 2
         IN  LowerRange(s, lo, m) \o LowerRange(s, m + 1, hi)

\* a lower() that leaves the text as it is
LowerDropped(s) == s

\* str.lower()
Lower(s) == LowerRange(s, 1, Len(s))

RECURSIVE UpperRange(_, _, _)
UpperRange(s, lo, hi) ==
    IF lo > hi THEN ""
    ELSE IF lo = hi THEN UpperChar(Ch(s, lo))
    ELSE LET m == (lo + hi) \div 2
         IN  UpperRange(s, lo, m) \o UpperRange(s, m + 1, hi)

\* str.upper()
Upper(s) == UpperRange(s, 1, Len(s))

\* s[i:].startswith(p), 1-based i
StartsAt(s, i, p) ==
    /\ i >= 1
    /\ i + Len(p) - 1 <= Len(s)
    /\ \A k \in 1..Len(p) : Ch(s, i + k - 1) = Ch(p, k)

\* p in s
Contains(s, p) == \E i \in 1..(Len(s) - Len(p) + 1) : StartsAt(s, i, p)

\* str.strip()
Strip(s) ==
    Bind({i \in 1..Len(s) : ~IsSpace(Ch(s, i))}, LAMBDA NonSp :
        IF NonSp = {} THEN ""
        ELSE SubSeq(s, CHOOSE i \in NonSp : \A j \in NonSp : i <= j,
                       CHOOSE i \in NonSp : \A j \in NonSp : i >= j))

\* len(s) in place of len(s.split())
WordCountChars(s) == Len(s)

\* len(s.split())
WordCount(s) ==
    Cardinality({i \in 1..Len(s) :
                    /\ ~IsSpace(Ch(s, i))
                    /\ (i = 1 \/ IsSpace(Ch(s, i - 1)))})

\* w * n
RECURSIVE Repeat(_, _)
Repeat(w, n) ==
    IF n <= 0 THEN ""
    ELSE IF n = 1 THEN w
    ELSE Repeat(w, n \div 2) \o Repeat(w, n - (n \div 2))

\* [x for x in xs if x in s]
Found(xs, s) == SelectSeq(xs, LAMBDA x : Contains(s, x))

(***************************************************************************)
(* Python / JSON values                                                    *)
(***************************************************************************)
Str(s) == [t |-> "str", v |-> s]

Num(n) == [t |-> "int", v |-> n]

Bool(b) == [t |-> "bool", v |-> b]

Null == [t |-> "null", v |-> 0]

List(q) == [t |-> "list", v |-> q]

Dict(f) == [t |-> "dict", v |-> f]

EmptyMap == [k \in {} |-> Null]

EmptyDict == Dict(EmptyMap)

IsDict(x) == x.t = "dict"

\* Python ==: values of different types are unequal
PyEq(a, b) == a.t = b.t /\ a.v = b.v

\* bool(x)
Truthy(x) ==
    CASE x.t = "str"  -> x.v # ""
      [] x.t = "int"  -> x.v # 0
      [] x.t = "bool" -> x.v
      [] x.t = "null" -> FALSE
      [] x.t = "list" -> Len(x.v) > 0
      [] x.t = "dict" -> DOMAIN x.v # {}

Keys(d) == DOMAIN d.v

\* d.get(k, dflt) for a dict d
Get(d, k, dflt) == IF k \in DOMAIN d.v THEN d.v[k] ELSE dflt

\* d[k] = x for a dict d
Put(d, k, x) == Dict((k :> x) @@ d.v)

(***************************************************************************)
(* json.loads on the JSON subset the backend outputs of the model use:     *)
(* objects, arrays, strings without escapes, integers, true/false/null.    *)
(* A result is [ok, val, pos]: pos is the index after the parsed value.    *)
(***************************************************************************)
ParseFail == [ok |-> FALSE, val |-> Null, pos |-> 0]

ParseOk(x, p) == [ok |-> TRUE, val |-> x, pos |-> p]

RECURSIVE SkipWs(_, _)
SkipWs(s, i) ==
    IF i <= Len(s) /\ IsSpace(Ch(s, i)) THEN SkipWs(s, i + 1) ELSE i

RECURSIVE DigitsEnd(_, _)
\* index after the run of digits that starts at i
DigitsEnd(s, i) ==
    IF i <= Len(s) /\ IsDigit(Ch(s, i)) THEN DigitsEnd(s, i + 1) ELSE i

DigitVal(c) == CHOOSE d \in 0..9 : Ch("0123456789", d + 1) = c

RECURSIVE ToInt(_)
\* int(s) for a non-empty string of digits
ToInt(s) ==
    IF Len(s) = 0 THEN 0
    ELSE 10 * ToInt(SubSeq(s, 1, Len(s) - 1)) + DigitVal(Ch(s, Len(s)))

\* index of the closing quote of a string whose content starts at i, or 0:
\* a raw control character before the quote ends the scan with a failure
QuoteEnd(s, i) ==
    Bind({j \in i..Len(s) : Ch(s, j) \in {"\"", "\n", "\t", "\r"}}, LAMBDA Stops :
        IF Stops = {} THEN 0
        ELSE Bind(CHOOSE j \in Stops : \A k \in Stops : j <= k, LAMBDA j :
                 IF Ch(s, j) = "\"" THEN j ELSE 0))

ParseString(s, i) ==
    IF i > Len(s) \/ Ch(s, i) # "\"" THEN ParseFail
    ELSE Bind(QuoteEnd(s, i + 1), LAMBDA j :
             IF j = 0 THEN ParseFail
             ELSE ParseOk(Str(SubSeq(s, i + 1, j - 1)), j + 1))

ParseNumber(s, i) ==
    Bind(Ch(s, i) = "-", LAMBDA neg :
    Bind(IF neg THEN i + 1 ELSE i, LAMBDA a :
    Bind(DigitsEnd(s, a), LAMBDA b :
        IF b = a THEN ParseFail
        ELSE IF Ch(s, a) = "0"
        THEN ParseOk(Num(0), a + 1)
        ELSE ParseOk(Num(IF neg THEN 0 - ToInt(SubSeq(s, a, b - 1))
                                ELSE ToInt(SubSeq(s, a, b - 1))), b))))

RECURSIVE ParseValue(_, _)
RECURSIVE ParseElems(_, _, _)
RECURSIVE ParseMembers(_, _, _)
RECURSIVE MemberStep(_, _)
RECURSIVE MemberRun(_, _, _)

\* the elements of an array after '[' or ','; i is at the next element
ParseElems(s, i, acc) ==
    Bind(ParseValue(s, i), LAMBDA e :
        IF ~e.ok \/ SkipWs(s, e.pos) > Len(s) THEN ParseFail
        ELSE IF Ch(s, SkipWs(s, e.pos)) = "]"
        THEN ParseOk(List(Append(acc, e.val)), SkipWs(s, e.pos) + 1)
        ELSE IF Ch(s, SkipWs(s, e.pos)) = ","
        THEN Bind(Append(acc, e.val), LAMBDA acc2 :
                 ParseElems(s, SkipWs(s, SkipWs(s, e.pos) + 1), acc2))
        ELSE ParseFail)

\* the scan of an object's members: pos is at the next key, d holds the
\* members read so far, done is set at '}' or at an error (ok = FALSE)
MemberScan(ok, done, pos, d) == [ok |-> ok, done |-> done, pos |-> pos, d |-> d]

\* one member, "key": value, and the ',' or '}' after it
MemberStep(s, st) ==
    Bind(ParseString(s, st.pos), LAMBDA key :
        IF ~key.ok \/ SkipWs(s, key.pos) > Len(s) \/ Ch(s, SkipWs(s, key.pos)) # ":"
        THEN MemberScan(FALSE, TRUE, st.pos, st.d)
        ELSE Bind(ParseValue(s, SkipWs(s, SkipWs(s, key.pos) + 1)), LAMBDA e :
            IF ~e.ok \/ SkipWs(s, e.pos) > Len(s)
            THEN MemberScan(FALSE, TRUE, st.pos, st.d)
            ELSE IF Ch(s, SkipWs(s, e.pos)) = "}"
            THEN MemberScan(TRUE, TRUE, SkipWs(s, e.pos) + 1,
                            Put(st.d, key.val.v, e.val))
            ELSE IF Ch(s, SkipWs(s, e.pos)) = ","
            THEN MemberScan(TRUE, FALSE, SkipWs(s, SkipWs(s, e.pos) + 1),
                            Put(st.d, key.val.v, e.val))
            ELSE MemberScan(FALSE, TRUE, st.pos, st.d)))

\* up to n members, one after the other, by halving n: the members of a
\* long object are read without nesting one evaluation per member
MemberRun(s, st, n) ==
    IF st.done \/ n <= 0 THEN st
    ELSE IF n = 1 THEN MemberStep(s, st)
    ELSE Bind(MemberRun(s, st, n \div 2), LAMBDA mid :
             MemberRun(s, mid, n - (n \div 2)))

\* the members of an object after '{' or ','; i is at the next key. An
\* object has at most one member more than the text has commas.
ParseMembers(s, i, acc) ==
    Bind(MemberRun(s, MemberScan(TRUE, FALSE, i, acc),
                   Cardinality({j \in i..Len(s) : Ch(s, j) = ","}) + 1), LAMBDA st :
        IF st.ok /\ st.done THEN ParseOk(st.d, st.pos) ELSE ParseFail)

ParseValue(s, i) ==
    IF i > Len(s) THEN ParseFail
    ELSE Bind(Ch(s, i), LAMBDA c :
             CASE c = "{" ->
                    Bind(SkipWs(s, i + 1), LAMBDA k :
                        IF k <= Len(s) /\ Ch(s, k) = "}"
                        THEN ParseOk(EmptyDict, k + 1)
                        ELSE ParseMembers(s, k, EmptyDict))
               [] c = "[" ->
                    Bind(SkipWs(s, i + 1), LAMBDA k :
                        IF k <= Len(s) /\ Ch(s, k) = "]"
                        THEN ParseOk(List(<<>>), k + 1)
                        ELSE ParseElems(s, k, <<>>))
               [] c = "\"" -> ParseString(s, i)
               [] c = "-" \/ IsDigit(c) -> ParseNumber(s, i)
               [] StartsAt(s, i, "null") -> ParseOk(Null, i + 4)
               [] StartsAt(s, i, "true") -> ParseOk(Bool(TRUE), i + 4)
               [] StartsAt(s, i, "false") -> ParseOk(Bool(FALSE), i + 5)
               [] OTHER -> ParseFail)

\* json.loads(s): ok = FALSE stands for JSONDecodeError
json_loads(s) ==
    Bind(ParseValue(s, SkipWs(s, 1)), LAMBDA r :
        IF r.ok /\ SkipWs(s, r.pos) = Len(s) + 1 THEN r ELSE ParseFail)

(***************************************************************************)
(* validate_job_posting_text                                               *)
(***************************************************************************)
job_keywords ==
    << "job", "position", "role", "career", "opportunity", "opening",
       "company", "employer", "organization", "hiring", "recruiting",
       "location", "city", "state", "country", "remote", "hybrid", "on-site",
       "responsibilities", "requirements", "qualifications", "skills",
       "experience", "years", "full-time", "part-time", "contract",
       "salary", "compensation", "benefits", "apply", "application",
       "engineer", "developer", "manager", "analyst", "specialist", "associate" >>

job_patterns ==
    << "about the job", "job description", "job title", "position title",
       "we are seeking", "we are looking for", "join our team",
       "required skills", "technical skills", "must have", "should have" >>

invalid_indicators ==
    << "lorem ipsum", "test text", "sample text", "placeholder",
       "this is a test", "dummy data", "example text", "random text" >>

location_indicators ==
    << "location", "city", "state", "country", "remote", "hybrid", "on-site",
       "india", "bengaluru", "mumbai", "delhi", "pune" >>

title_indicators ==
    << "engineer", "developer", "manager", "analyst", "specialist",
       "associate", "lead", "senior", "junior" >>

MinChars == 50

MinKeywords == 3

MinWords == 20

MinKeywordsNoIndicator == 5

\* the loop of app.py 77-79 started one indicator too late
FirstIndicatorSkipsOne(text_lower) ==
    LET hits == Found(Tail(invalid_indicators), text_lower)
    IN  IF Len(hits) = 0 THEN "" ELSE hits[1]

\* app.py 77-79: the first indicator, in list order, that the text contains;
\* "" when the loop ends without a return
FirstIndicator(text_lower) ==
    LET hits == Found(invalid_indicators, text_lower)
    IN  IF Len(hits) = 0 THEN "" ELSE hits[1]

\* The returned pair (is_valid, error_message); the message is kept as its
\* kind plus the value the f-string interpolates into it.
Verdict(ok, kind, arg) == [valid |-> ok, kind |-> kind, arg |-> arg]

validate_job_posting_text(text) ==
    IF text = "" \/ Len(Strip(text)) < MinChars
    THEN Verdict(FALSE, "too_short", "")
    ELSE
    LET text_lower     == Lower(text)
        found_keywords == Found(job_keywords, text_lower)
        found_patterns == Found(job_patterns, text_lower)
        found_invalid  == FirstIndicator(text_lower)
        word_count     == WordCount(text)
        has_location   == \E i \in 1..Len(location_indicators) :
                              Contains(text_lower, location_indicators[i])
        has_title      == \E i \in 1..Len(title_indicators) :
                              Contains(text_lower, title_indicators[i])
    IN  IF Len(found_keywords) < MinKeywords /\ Len(found_patterns) = 0
        THEN Verdict(FALSE, "not_a_job_posting", "")
        ELSE IF found_invalid # ""
        THEN Verdict(FALSE, "placeholder", found_invalid)
        ELSE IF word_count < MinWords
        THEN Verdict(FALSE, "too_few_words", word_count)
        ELSE IF ~has_location /\ ~has_title
                /\ Len(found_keywords) < MinKeywordsNoIndicator
        THEN Verdict(FALSE, "not_enough_indicators", "")
        ELSE Verdict(TRUE, "", "")

(***************************************************************************)
(* Calendar arithmetic of datetime: a date is its proleptic Gregorian      *)
(* ordinal (0001-01-01 is day 1), as in date.toordinal().                  *)
(***************************************************************************)
IsLeap(y) == y % 4 = 0 /\ (y % 100 # 0 \/ y % 400 = 0)

DaysInMonth(y, m) ==
    IF m = 2 THEN (IF IsLeap(y) THEN 29 ELSE 28)
    ELSE IF m \in {4, 6, 9, 11} THEN 30 ELSE 31

RECURSIVE DaysBeforeMonth(_, _)
DaysBeforeMonth(y, m) ==
    IF m <= 1 THEN 0 ELSE DaysBeforeMonth(y, m - 1) + DaysInMonth(y, m - 1)

DaysBeforeYear(y) ==
    LET p == y - 1 IN p * 365 + p \div 4 - p \div 100 + p \div 400

Ymd2Ord(y, m, d) == DaysBeforeYear(y) + DaysBeforeMonth(y, m) + d

Ord2Ymd(n) ==
    Bind(CHOOSE c \in ((n \div 366) + 1)..((n \div 365) + 1) :
             DaysBeforeYear(c) < n /\ n <= DaysBeforeYear(c + 1), LAMBDA y :
    Bind(n - DaysBeforeYear(y), LAMBDA r :
    Bind(CHOOSE c \in 1..12 :
             DaysBeforeMonth(y, c) < r
             /\ r <= DaysBeforeMonth(y, c) + DaysInMonth(y, c), LAMBDA m :
        [year |-> y, month |-> m, day |-> r - DaysBeforeMonth(y, m)])))

DigitStr(d) == Ch("0123456789", d + 1)

RECURSIVE IntToStr(_)
\* str(n) for n >= 0
IntToStr(n) == IF n < 10 THEN DigitStr(n) ELSE IntToStr(n \div 10) \o DigitStr(n % 10)

\* zero-padded to at least w digits
Pad(n, w) == Bind(IntToStr(n), LAMBDA digits : Repeat("0", w - Len(digits)) \o digits)

\* d.strftime("%Y-%m-%d")
FormatDate(n) ==
    Bind(Ord2Ymd(n), LAMBDA d :
        Pad(d.year, 4) \o "-" \o Pad(d.month, 2) \o "-" \o Pad(d.day, 2))

MinOrdinal == 1

MaxTimedeltaDays == 999999999

\* DateMinusDays with the offset added to today instead of subtracted
DateMinusDaysAdds(today, days) ==
    IF days > MaxTimedeltaDays \/ today + days < MinOrdinal
    THEN [raised |-> TRUE, val |-> Null]
    ELSE [raised |-> FALSE, val |-> Str(FormatDate(today + days))]

\* (datetime.now() - timedelta(days=days)).strftime("%Y-%m-%d");
\* raised = TRUE stands for OverflowError
DateMinusDays(today, days) ==
    IF days > MaxTimedeltaDays \/ today - days < MinOrdinal
    THEN [raised |-> TRUE, val |-> Null]
    ELSE [raised |-> FALSE, val |-> Str(FormatDate(today - days))]

(***************************************************************************)
(* parse_relative_date                                                     *)
(***************************************************************************)
\* Where a match of (\d+)\s+<unit>s?\s+ago that starts at index i ends its
\* digits, or 0 when no match starts at i.
MatchAt(s, i, unit) ==
    IF ~(i <= Len(s) /\ IsDigit(Ch(s, i))) THEN 0
    ELSE Bind(DigitsEnd(s, i), LAMBDA j :
         Bind(SkipWs(s, j), LAMBDA k :
             IF ~(k > j /\ StartsAt(s, k, unit)) THEN 0
             ELSE Bind(IF k + Len(unit) <= Len(s) /\ Ch(s, k + Len(unit)) = "s"
                       THEN k + Len(unit) + 1 ELSE k + Len(unit), LAMBDA m2 :
                      IF SkipWs(s, m2) > m2 /\ StartsAt(s, SkipWs(s, m2), "ago")
                      THEN j ELSE 0)))

\* re.search(r'(\d+)\s+<unit>s?\s+ago', s): the leftmost match and int(group(1))
SearchRelative(s, unit) ==
    Bind({i \in 1..Len(s) : MatchAt(s, i, unit) # 0}, LAMBDA Starts :
        IF Starts = {} THEN [found |-> FALSE, n |-> 0]
        ELSE Bind(CHOOSE a \in Starts : \A b \in Starts : a <= b, LAMBDA i :
                 [found |-> TRUE, n |-> ToInt(SubSeq(s, i, MatchAt(s, i, unit) - 1))]))

DaysPerWeek == 7

DaysPerMonth == 30

DaysPerYear == 365

RecencyFloorYear == 2024

\* re.match(r'^\d{4}-\d{2}-\d{2}$', s)
IsDateShaped(s) ==
    LET n == IF Len(s) = 11 /\ Ch(s, 11) = "\n" THEN 10 ELSE Len(s)
    IN  /\ n = 10
        /\ \A i \in {1, 2, 3, 4, 6, 7, 9, 10} : IsDigit(Ch(s, i))
        /\ Ch(s, 5) = "-"
        /\ Ch(s, 8) = "-"

\* datetime.strptime(s, "%Y-%m-%d") for a date-shaped s: ok = FALSE is ValueError
Strptime(s) ==
    Bind(ToInt(SubSeq(s, 1, 4)), LAMBDA y :
    Bind(ToInt(SubSeq(s, 6, 7)), LAMBDA m :
    Bind(ToInt(SubSeq(s, 9, 10)), LAMBDA d :
        [ok   |-> Len(s) = 10 /\ y >= 1 /\ m \in 1..12 /\ d >= 1
                  /\ d <= DaysInMonth(y, m),
         year |-> y])))

\* parse_relative_date(text, field_value) with datetime.now() on day `today`.
\* raised = TRUE: OverflowError of the date arithmetic, or TypeError of
\* re.match on a truthy field_value that is not a str.
parse_relative_date(text, field_value, today) ==
    Bind(Lower(text), LAMBDA text_lower :
    Bind(<< SearchRelative(text_lower, "week"), SearchRelative(text_lower, "month"),
            SearchRelative(text_lower, "day"), SearchRelative(text_lower, "year") >>,
         LAMBDA match :
        IF match[1].found
        THEN DateMinusDays(today, match[1].n * DaysPerWeek)
        ELSE IF match[2].found
        THEN DateMinusDays(today, match[2].n * DaysPerMonth)
        ELSE IF match[3].found
        THEN DateMinusDays(today, match[3].n)
        ELSE IF match[4].found
        THEN DateMinusDays(today, match[4].n * DaysPerYear)
        ELSE IF Truthy(field_value) /\ field_value.t # "str"
        THEN [raised |-> TRUE, val |-> Null]
        ELSE IF Truthy(field_value) /\ IsDateShaped(field_value.v)
                /\ Bind(Strptime(field_value.v), LAMBDA parsed :
                       parsed.ok /\ parsed.year >= RecencyFloorYear)
        THEN [raised |-> FALSE, val |-> field_value]
        ELSE [raised |-> FALSE,
              val |-> IF Truthy(field_value) THEN field_value ELSE Str("")]))

(***************************************************************************)
(* extract_job_data_with_llm                                               *)
(***************************************************************************)
\* s.find(c) and s.rfind(c) for a one-character c: 0-based index, or -1
PyFind(s, c) ==
    Bind({i \in 1..Len(s) : Ch(s, i) = c}, LAMBDA Hits :
        IF Hits = {} THEN -1
        ELSE (CHOOSE a \in Hits : \A b \in Hits : a <= b) - 1)

\* find in place of rfind: the first occurrence
PyRFindFirst(s, c) == PyFind(s, c)

PyRFind(s, c) ==
    Bind({i \in 1..Len(s) : Ch(s, i) = c}, LAMBDA Hits :
        IF Hits = {} THEN -1
        ELSE (CHOOSE a \in Hits : \A b \in Hits : a >= b) - 1)

\* s[a:b] for 0 <= a, b <= len(s)
Slice(s, a, b) == SubSeq(s, a + 1, b)

StartsWith(s, p) == StartsAt(s, 1, p)

EndsWith(s, p) == Len(s) >= Len(p) /\ StartsAt(s, Len(s) - Len(p) + 1, p)

\* SANY admits no backquote inside a string: the model writes the backquote
\* of the code fence as "~", a character no other input of the model uses.
BackQuote == "~"

Fence == BackQuote \o BackQuote \o BackQuote

FenceJson == Fence \o "json"

\* the cleaning without the two brace trims of lines 237-245
CleanResponseFencesOnly(content) ==
    Bind(Strip(content), LAMBDA t0 :
    Bind(IF StartsWith(t0, FenceJson) THEN Slice(t0, 7, Len(t0)) ELSE t0, LAMBDA t1 :
    Bind(IF StartsWith(t1, Fence) THEN Slice(t1, 3, Len(t1)) ELSE t1, LAMBDA t2 :
    Bind(IF EndsWith(t2, Fence) THEN Slice(t2, 0, Len(t2) - 3) ELSE t2, LAMBDA t3 :
        Strip(Strip(t3))))))

\* app.py 222-245: the text handed to the first json.loads
CleanResponse(content) ==
    Bind(Strip(content), LAMBDA t0 :
    Bind(IF StartsWith(t0, FenceJson) THEN Slice(t0, 7, Len(t0)) ELSE t0, LAMBDA t1 :
    Bind(IF StartsWith(t1, Fence) THEN Slice(t1, 3, Len(t1)) ELSE t1, LAMBDA t2 :
    Bind(IF EndsWith(t2, Fence) THEN Slice(t2, 0, Len(t2) - 3) ELSE t2, LAMBDA t3 :
    Bind(Strip(Strip(t3)), LAMBDA t4 :
    Bind(PyFind(t4, "{"), LAMBDA first_brace :
    Bind(IF first_brace > 0 THEN Slice(t4, first_brace, Len(t4)) ELSE t4, LAMBDA t5 :
    Bind(PyRFind(t5, "}"), LAMBDA last_brace :
        IF last_brace > 0 /\ last_brace < Len(t5) - 1
        THEN Slice(t5, 0, last_brace + 1)
        ELSE t5))))))))

\* app.py 248-276: the first parse and the object-boundary retry;
\* ok = FALSE is the return of (None, None)
ParseResponse(json_text) ==
    Bind(json_loads(json_text), LAMBDA first :
        IF first.ok
        THEN [ok |-> TRUE, val |-> first.val, retried |-> FALSE, reparsed |-> json_text]
        ELSE IF /\ PyFind(json_text, "{") # -1
                /\ PyRFind(json_text, "}") # -1
                /\ PyRFind(json_text, "}") > PyFind(json_text, "{")
        THEN Bind(json_loads(Slice(json_text, PyFind(json_text, "{"),
                                   PyRFind(json_text, "}") + 1)), LAMBDA second :
                 [ok |-> second.ok, val |-> second.val, retried |-> TRUE,
                  reparsed |-> Slice(json_text, PyFind(json_text, "{"),
                                     PyRFind(json_text, "}") + 1)])
        ELSE [ok |-> FALSE, val |-> Null, retried |-> FALSE, reparsed |-> json_text])

JobFields ==
    << "application_link", "application_posted", "categories", "city",
       "company", "company_url", "country", "description", "description_full",
       "industry", "job_description_roles_resp", "job_id", "job_type",
       "location", "position_title", "remote_in_person", "required_skills",
       "salary", "start_date", "state", "created_date", "logo_url",
       "number_of_viewed", "number_of_applied", "number_of_saved" >>

CompanyFields ==
    << "name", "city", "state", "industry", "description",
       "url", "company_domain", "logo_url", "company_id" >>

Range(q) == {q[i] : i \in 1..Len(q)}

EmptyRoles == Dict([roles |-> List(<<>>), responsibilities |-> List(<<>>)])

default_job_structure(today) ==
    [k \in Range(JobFields) |->
        CASE k = "categories" -> List(<<>>)
          [] k = "job_description_roles_resp" -> EmptyRoles
          [] k = "created_date" -> Str(FormatDate(today))
          [] k \in {"number_of_viewed", "number_of_applied", "number_of_saved"}
               -> Num(0)
          [] OTHER -> Str("")]

default_company_structure == [k \in Range(CompanyFields) |-> Str("")]

\* a merge that adds "roles" but forgets "responsibilities"
MergeRolesForgetsOne(x) ==
    IF ~IsDict(x) THEN EmptyRoles
    ELSE Dict([k \in Keys(x) \cup {"roles"} |->
                  IF k \in Keys(x) THEN x.v[k] ELSE List(<<>>)])

\* app.py 345-352: the value kept for a supplied job_description_roles_resp
MergeRoles(x) ==
    IF ~IsDict(x) THEN EmptyRoles
    ELSE Dict([k \in Keys(x) \cup {"roles", "responsibilities"} |->
                  IF k \in Keys(x) THEN x.v[k] ELSE List(<<>>)])

\* a merge loop that also replaces a supplied value that is empty
MergeJobDefaultsFillsEmpty(job_data, today) ==
    Dict([k \in Keys(job_data) \cup Range(JobFields) |->
            IF k \notin Keys(job_data) THEN default_job_structure(today)[k]
            ELSE IF k = "job_description_roles_resp" THEN MergeRoles(job_data.v[k])
            ELSE IF k \in Range(JobFields) /\ ~Truthy(job_data.v[k])
            THEN default_job_structure(today)[k]
            ELSE job_data.v[k]])

\* a merge loop that fills nothing once the backend supplied any field
MergeJobDefaultsSkipped(job_data, today) ==
    IF Keys(job_data) = {}
    THEN Dict(default_job_structure(today))
    ELSE job_data

\* app.py 341-352 on a dict job_data
MergeJobDefaults(job_data, today) ==
    Dict([k \in Keys(job_data) \cup Range(JobFields) |->
            IF k \notin Keys(job_data) THEN default_job_structure(today)[k]
            ELSE IF k = "job_description_roles_resp" THEN MergeRoles(job_data.v[k])
            ELSE job_data.v[k]])

\* `key in x`: raised = TRUE is the TypeError of a non-container x
PyIn(key, x) ==
    CASE x.t = "dict" -> [raised |-> FALSE, val |-> key \in Keys(x)]
      [] x.t = "str"  -> [raised |-> FALSE, val |-> Contains(x.v, key)]
      [] x.t = "list" -> [raised |-> FALSE, val |-> Str(key) \in Range(x.v)]
      [] OTHER        -> [raised |-> TRUE, val |-> FALSE]

\* a merge that lets a value which is not a dict through as it is
MergeCompanyDefaultsLenient(company_data) ==
    IF IsDict(company_data)
    THEN [raised |-> FALSE,
          val |-> Dict([k \in Keys(company_data) \cup Range(CompanyFields) |->
                          IF k \in Keys(company_data) THEN company_data.v[k]
                          ELSE default_company_structure[k]])]
    ELSE [raised |-> FALSE, val |-> company_data]

\* app.py 368-370: a dict gains the missing keys; a str or list that holds
\* every key passes unchanged; any other value ends in a TypeError, raised
\* by `in` or by the item assignment.
MergeCompanyDefaults(company_data) ==
    IF IsDict(company_data)
    THEN [raised |-> FALSE,
          val |-> Dict([k \in Keys(company_data) \cup Range(CompanyFields) |->
                          IF k \in Keys(company_data) THEN company_data.v[k]
                          ELSE default_company_structure[k]])]
    ELSE IF \A i \in 1..Len(CompanyFields) :
                /\ ~PyIn(CompanyFields[i], company_data).raised
                /\ PyIn(CompanyFields[i], company_data).val
    THEN [raised |-> FALSE, val |-> company_data]
    ELSE [raised |-> TRUE, val |-> Null]

\* app.py 294-304: the company record synthesized from a flat job object
FlatCompany(extracted_data) ==
    Dict([name           |-> Get(extracted_data, "company", Str("")),
          city           |-> Get(extracted_data, "city", Str("")),
          state          |-> Get(extracted_data, "state", Str("")),
          industry       |-> Get(extracted_data, "industry", Str("")),
          description    |-> Str(""),
          url            |-> Get(extracted_data, "company_url", Str("")),
          company_domain |-> Str(""),
          logo_url       |-> Get(extracted_data, "logo_url", Str("")),
          company_id     |-> Str("")])

\* The value extract_job_data_with_llm returns, with the number of calls it
\* made to the backend. ok = FALSE is the pair (None, None).
NoneNone(calls) == [ok |-> FALSE, job |-> Null, company |-> Null, calls |-> calls]

\* the chat-completion call raises
NoBackend == [raises |-> TRUE, content |-> ""]

\* the resolver without the final overwrite of created_date
ResolveDatesKeepsCreated(job_data, company_data, raw_text, today) ==
    Bind(Get(job_data, "application_posted", Str("")), LAMBDA llm_date :
    Bind(parse_relative_date(raw_text, llm_date, today), LAMBDA calculated :
        IF calculated.raised THEN NoneNone(1)
        ELSE [ok |-> TRUE,
              job |-> IF Truthy(calculated.val) /\ ~PyEq(calculated.val, llm_date)
                      THEN Put(job_data, "application_posted", calculated.val)
                      ELSE job_data,
              company |-> company_data,
              calls |-> 1]))

\* app.py 372-383 on the merged job_data
ResolveDates(job_data, company_data, raw_text, today) ==
    Bind(Get(job_data, "application_posted", Str("")), LAMBDA llm_date :
    Bind(parse_relative_date(raw_text, llm_date, today), LAMBDA calculated :
        IF calculated.raised THEN NoneNone(1)
        ELSE Bind(IF Truthy(calculated.val) /\ ~PyEq(calculated.val, llm_date)
                  THEN Put(job_data, "application_posted", calculated.val)
                  ELSE job_data, LAMBDA resolved :
                 [ok |-> TRUE,
                  job |-> Put(resolved, "created_date", Str(FormatDate(today))),
                  company |-> company_data,
                  calls |-> 1])))

\* app.py 340-383. A job_data that is not a dict never leaves the merge
\* loop: `key not in job_data`, the item assignment or job_data[key] raises.
MergeAndResolve(job_data, company_data, raw_text, today) ==
    IF ~IsDict(job_data) THEN NoneNone(1)
    ELSE Bind(MergeCompanyDefaults(company_data), LAMBDA c :
             IF c.raised THEN NoneNone(1)
             ELSE Bind(MergeJobDefaults(job_data, today), LAMBDA merged :
                      ResolveDates(merged, c.val, raw_text, today)))

\* a shape test that takes every object for the flat shape
IsFlatShapeAlways(extracted_data) == TRUE

\* app.py 291: the old format, all job data at root level
IsFlatShape(extracted_data) ==
    "position_title" \in Keys(extracted_data) \/ "company" \in Keys(extracted_data)

\* app.py 278-383 on the parsed object
Normalize(extracted_data, raw_text, today) ==
    IF ~IsDict(extracted_data) THEN NoneNone(1)
    ELSE
    Bind(Get(extracted_data, "job_data", EmptyDict), LAMBDA job_data :
    Bind(Get(extracted_data, "company_data", EmptyDict), LAMBDA company_data :
        IF ~Truthy(job_data) /\ ~Truthy(company_data)
        THEN IF IsFlatShape(extracted_data)
             THEN Bind(FlatCompany(extracted_data), LAMBDA flat_company :
                      MergeAndResolve(extracted_data, flat_company, raw_text, today))
             ELSE NoneNone(1)
        ELSE MergeAndResolve(job_data, company_data, raw_text, today)))

\* app.py 191, before the try block:
\*   os.getenv("OPENAI_API_KEY") or st.secrets.get("OPENAI_API_KEY", None)
\* st.secrets is read only when the environment variable is unset. It holds
\* the key ("key"), or a secrets file without it ("no_key": get returns
\* None), or there is no secrets file at all ("no_file": Streamlit raises on
\* any lookup, and Mapping.get only catches KeyError).
SecretsStates == {"key", "no_key", "no_file"}

GetApiKey(env_key, secrets) ==
    IF env_key THEN [raised |-> FALSE, val |-> TRUE]
    ELSE IF secrets = "no_file" THEN [raised |-> TRUE, val |-> FALSE]
    ELSE [raised |-> FALSE, val |-> secrets = "key"]

\* a repair attempt that asks the backend again
CallsIssuedWithRepair(parsed) == IF parsed.retried THEN 2 ELSE 1

\* app.py 205-219 is the only call site and is passed once; the repair
\* attempt (265-271) parses the same output again and holds no call
CallsIssued(parsed) == 1

\* extract_job_data_with_llm(raw_text) from line 193 on: api_key is whether
\* the lookup of line 191 gave a credential, backend is what the one chat-completion call does (raise, or return
\* message content), today is the day datetime.now() falls on.
extract_job_data_with_llm(raw_text, api_key, backend, today) ==
    IF ~api_key THEN NoneNone(0)
    ELSE IF backend.raises THEN NoneNone(1)
    ELSE Bind(CleanResponse(backend.content), LAMBDA json_text :
         Bind(ParseResponse(json_text), LAMBDA parsed :
         Bind(IF ~parsed.ok THEN NoneNone(1)
              ELSE Normalize(parsed.val, raw_text, today), LAMBDA result :
             [result EXCEPT !.calls = CallsIssued(parsed)])))

(***************************************************************************)
(* Inputs of the validator: texts assembled from filler words, job         *)
(* keywords, a boilerplate phrase, placeholder markers, a location term    *)
(* and a title term, so that every rejection condition occurs alone and    *)
(* combined with the others.                                               *)
(***************************************************************************)
MaxFillWords == 20

MaxKwWords == 5

KwWords == << "Job ", "career ", "HIRING ", "skills ", "Salary ", "benefits ",
              "apply ", "contract " >>

RECURSIVE KwPart(_)
KwPart(n) == IF n <= 0 THEN "" ELSE KwPart(n - 1) \o KwWords[n]

FillWords == {"zq ", "Zqzqzq\n"}

FillCounts == {0, MaxFillWords - 5, MaxFillWords - 1, MaxFillWords}

PatternParts == {"", "We Are Seeking "}

MarkerParts == {"", "Lorem Ipsum ", "some dummy data and a Placeholder "}

LocationParts == {"", "Bengaluru "}

TitleParts == {"", "Senior "}

GeneratedTexts ==
    { Repeat(f, n) \o KwPart(k) \o p \o m \o l \o t :
        f \in FillWords, n \in FillCounts, k \in 0..MaxKwWords,
        p \in PatternParts, m \in MarkerParts,
        l \in LocationParts, t \in TitleParts }

ExtraTexts ==
    { "", "   \n  ",
      "one two three four five six seven eight nine ten",
      "lorem ipsum",
      "  " \o Repeat("ab ", 16) \o "c  ",
      "  " \o Repeat("ab ", 16) \o "cd  " }

\* Ten-word texts without a job keyword (shorter and longer than 50
\* characters, with a boilerplate phrase, a title term, a marker) and
\* 200-word texts holding "Responsibilities", "Bengaluru" and "Full-time"
\* among words that match nothing, one more keyword, a boilerplate phrase
\* or a marker.
TenWordTexts ==
    { Repeat("zq ", 10),
      Repeat("Zqzqzq ", 10),
      "We are seeking Senior " \o Repeat("zqzqzq ", 6),
      "Lorem ipsum " \o Repeat("zqzqzq\n", 8),
      "Must have " \o Repeat("zqzqzq ", 7) \o "Bengaluru" }

ThreeTerms ==
    { "Responsibilities Bengaluru Full-time ",
      "full-time RESPONSIBILITIES\nbengaluru " }

TwoHundredWordTexts ==
    { t \o Repeat("zq ", 197) : t \in ThreeTerms }
    \cup { Repeat("zq ", 196) \o t \o "Salary" : t \in ThreeTerms }
    \cup { Repeat("zq ", 98) \o t \o Repeat("zq ", 97) \o "must have"
             : t \in ThreeTerms }
    \cup { "Placeholder " \o t \o "skills " \o Repeat("zq ", 195)
             : t \in ThreeTerms }
    \cup { "Responsibilities Full-time Salary " \o Repeat("zq ", 197) }

VTexts == GeneratedTexts \cup ExtraTexts \cup TenWordTexts \cup TwoHundredWordTexts

NoVerdict == [valid |-> FALSE, kind |-> "none", arg |-> ""]

IdleValidate == vtext = "" /\ vresult = NoVerdict /\ vpc = "idle"

IdleExtract ==
    /\ x_text = ""
    /\ x_key = FALSE
    /\ x_secrets = "no_key"
    /\ x_backend = NoBackend
    /\ x_today = MinOrdinal
    /\ x_ret = NoneNone(0)
    /\ x_pc = "idle"

NoOutcome == [kind |-> "none", exc |-> "", missing |-> <<>>, id |-> 0, ok |-> FALSE]

\* no function of db_connection has been called; both collections are empty
IdleStore ==
    /\ g_fn = "idle"
    /\ g_pc = "idle"
    /\ g_data = Null
    /\ g_passed = Null
    /\ g_client = "None"
    /\ g_open = 0
    /\ g_id = 0
    /\ g_exc = ""
    /\ g_out = NoOutcome
    /\ g_verified = FALSE
    /\ jobs = <<>>
    /\ companies = <<>>
    /\ g_calls = 0

\* main, app.py 114-120: the session state before the first run
InitSession ==
    /\ text_area = ""
    /\ processed_data = Null
    /\ processed_company_data = Null
    /\ insertion_success = FALSE
    /\ backend_calls = <<>>
    /\ store_pc = "idle"
    /\ job_document_id = 0
    /\ company_document_id = 0

InitValidate ==
    /\ vtext \in VTexts
    /\ vresult = NoVerdict
    /\ vpc = "start"
    /\ IdleExtract
    /\ InitSession
    /\ IdleStore

Validate ==
    /\ vpc = "start"
    /\ vresult' = validate_job_posting_text(vtext)
    /\ vpc' = "done"
    /\ UNCHANGED <<vtext, xvars, mvars, gvars>>

NextValidate == Validate

SpecValidate == InitValidate /\ [][NextValidate]_vars

(***************************************************************************)
(* Inputs of extract_job_data_with_llm: raw texts with and without         *)
(* relative date expressions, and backend outputs written as JSON text.    *)
(***************************************************************************)
MaxRelN == 12

Q(s) == "\"" \o s \o "\""

Member(k, v) == Q(k) \o ": " \o v

RECURSIVE JoinComma(_)
JoinComma(q) ==
    IF Len(q) = 0 THEN ""
    ELSE IF Len(q) = 1 THEN q[1]
    ELSE JoinComma(SubSeq(q, 1, Len(q) \div 2)) \o ", "
         \o JoinComma(SubSeq(q, (Len(q) \div 2) + 1, Len(q)))

Obj(members) == "{" \o JoinComma(members) \o "}"

Arr(elems) == "[" \o JoinComma(elems) \o "]"

Units == {"week", "month", "day", "year"}

UnitDays(u) ==
    CASE u = "week" -> 7 [] u = "month" -> 30 [] u = "day" -> 1 [] u = "year" -> 365

RelText(n, u, plural) == "Posted " \o IntToStr(n) \o " " \o u \o plural \o " ago"

\* Raw texts with the number of days their relative expression stands for
\* (the highest-priority unit, the leftmost expression of that unit).
GeneratedRelCases ==
    { [text |-> RelText(n, u, pl), days |-> n * UnitDays(u)] :
        n \in 1..MaxRelN, u \in Units, pl \in {"", "s"} }

MixedRelCases ==
    { [text |-> "Reposted 1 month ago. First listed 3 weeks ago.", days |-> 21],
      [text |-> "Founded 10 years ago; posted 5 Days Ago", days |-> 5],
      [text |-> "2 years ago we opened. Posted 2 MONTHS  AGO", days |-> 60],
      [text |-> "1 day ago | 1 year ago | 1 month ago | 1 week ago", days |-> 7],
      [text |-> "Posted 4weeks ago, updated 6 days\tago", days |-> 6],
      [text |-> "Open for 14 weeks\nago it was posted", days |-> 98],
      [text |-> "Team formed 30 years ago", days |-> 10950],
      [text |-> "Posted 0 days ago", days |-> 0] }

RelCases == GeneratedRelCases \cup MixedRelCases

\* the date arithmetic overflows on these
OverflowTexts == {"Posted 999999 weeks ago", "Fossil from 3000 years ago"}

NoRelTexts == {"Senior engineer, Bengaluru", "Posted 4weeks ago", "Weeks ago, many"}

Todays == {Ymd2Ord(2025, 6, 15), Ymd2Ord(2024, 3, 1), Ymd2Ord(2026, 1, 5)}

PostedValues ==
    << Q(""), Q("2022-07-01"), Q("2023-12-31"), Q("2024-01-01"), Q("2025-01-10"),
       Q("2024-13-45"), Q("1999-02-29"), Q("last month"), "null", "0", "20240101" >>

CounterValues == << Q("0"), "-5", "null", "7", "0", Q("many") >>

RolesValues ==
    << Q("Build things"), "null", "[]", "{}",
       Obj(<<Member("roles", Arr(<<Q("Dev")>>))>>),
       Obj(<<Member("responsibilities", Arr(<<Q("Code")>>))>>),
       Obj(<<Member("roles", Arr(<<Q("Dev")>>)),
             Member("responsibilities", Arr(<<Q("Code")>>))>>),
       Obj(<<Member("roles", Q("Dev")), Member("notes", Q("n"))>>) >>

InfosysUrl == "https://www.infosys.com/careers"

CompanyValues ==
    << "{}", "null", Q("Infosys"), "[]", "7",
       Obj(<<Member("name", Q("Infosys")), Member("url", Q(InfosysUrl))>>),
       Obj(<<Member("name", Q("Infosys")), Member("url", Q(InfosysUrl)),
             Member("company_domain", Q("infosys.com"))>>),
       Obj(<<Member("url", Q(InfosysUrl)), Member("company_domain", Q(InfosysUrl))>>),
       Obj(<<Member("url", Q("")),
             Member("description", Q("Write to hr@animaker.com"))>>),
       Obj(<<Member("url", Q("")), Member("description", Q("Write to hr@animaker.com")),
             Member("company_domain", Q("animaker.com"))>>),
       Obj(<<Member("name", Q("Acme")), Member("url", Q(""))>>),
       Obj(<<Member("name", Q("Acme")), Member("founded", "1999")>>),
       Arr([i \in 1..Len(CompanyFields) |-> Q(CompanyFields[i])]),
       Arr([i \in 1..(Len(CompanyFields) - 1) |-> Q(CompanyFields[i])]),
       Q("name city state industry description url company_domain logo_url company_id") >>

\* a job object that supplies the fields JobFields[i], i in S, in list order
JobObject(S) ==
    Obj(SelectSeq([i \in 1..Len(JobFields) |->
                      IF i \in S THEN Member(JobFields[i], Q("x")) ELSE ""],
                  LAMBDA m : m # ""))

CompanyObject(S) ==
    Obj(SelectSeq([i \in 1..Len(CompanyFields) |->
                      IF i \in S THEN Member(CompanyFields[i], Q("y")) ELSE ""],
                  LAMBDA m : m # ""))

Title == Member("position_title", Q("Engineer"))

Nested(job, company) == Obj(<<Member("job_data", job), Member("company_data", company)>>)

\* backend outputs in which one field of the job object varies
PostedResponses ==
    { Nested(Obj(<<Title, Member("application_posted", PostedValues[i])>>), "{}") :
        i \in 1..Len(PostedValues) }
    \cup { Obj(<<Title, Member("application_posted", PostedValues[i])>>) :
        i \in 1..Len(PostedValues) }

CounterResponses ==
    { Nested(Obj(<<Title, Member(c, CounterValues[i])>>), "{}") :
        i \in 1..Len(CounterValues),
        c \in {"number_of_viewed", "number_of_applied", "number_of_saved"} }
    \cup { Obj(<<Title, Member("number_of_saved", CounterValues[i])>>) :
        i \in 1..Len(CounterValues) }

RolesResponses ==
    { Nested(Obj(<<Title, Member("job_description_roles_resp", RolesValues[i])>>), "{}") :
        i \in 1..Len(RolesValues) }
    \cup { Obj(<<Title, Member("job_description_roles_resp", RolesValues[i])>>) :
        i \in 1..Len(RolesValues) }

CompanyResponses ==
    { Nested(Obj(<<Title>>), CompanyValues[i]) : i \in 1..Len(CompanyValues) }
    \cup { Nested("{}", CompanyValues[i]) : i \in 1..Len(CompanyValues) }
    \cup { Obj(<<Member("company_data", CompanyValues[i])>>) : i \in 1..Len(CompanyValues) }
    \cup { Obj(<<Member("job_data", Obj(<<Title>>))>>) }

FlatResponses ==
    { Obj(<<Title, Member("company_url", Q(InfosysUrl))>>),
      Obj(<<Member("company", Q("Animaker")), Member("company_url", Q("")),
            Member("description", Q("Write to hr@animaker.com"))>>),
      Obj(<<Member("company", Q("Acme")), Member("city", Q("Pune")),
            Member("created_date", Q("2023-01-01"))>>),
      Obj(<<Title, Member("job_data", "null"), Member("company_data", "{}")>>),
      Obj(<<Title, Member("company", "null"), Member("logo_url", "7")>>) }

SubsetResponses ==
    { Nested(JobObject(1..n), CompanyObject({})) : n \in 0..Len(JobFields) }
    \cup { Nested(JobObject({n}), CompanyObject({(n % Len(CompanyFields)) + 1})) :
             n \in 1..Len(JobFields) }
    \cup { Nested(JobObject({}), CompanyObject(1..n)) : n \in 1..Len(CompanyFields) }
    \cup { JobObject((1..Len(JobFields)) \ {n}) : n \in 1..Len(JobFields) }

CreatedResponses ==
    { Nested(Obj(<<Title, Member("created_date", Q("2023-01-01"))>>), "{}"),
      Nested(Obj(<<Member("created_date", "null"), Member("bonus", "true")>>), "{}"),
      Nested(Obj(<<Member("created_date", Q("Posted 4 weeks ago"))>>),
             Obj(<<Member("created_date", Q("2023-01-01"))>>)),
      Nested(Obj(<<Title, Member("created_date", Q("2023-01-01")),
                   Member("application_posted", Q("2025-01-10")),
                   Member("number_of_saved", "null"), Member("bonus", "true"),
                   Member("job_description_roles_resp",
                          Obj(<<Member("roles", Arr(<<Q("Dev")>>))>>))>>),
             Obj(<<Member("name", Q("Acme")), Member("founded", "1999")>>)) }

OddResponses ==
    { "", "I cannot help with that.", "[1, 2]", "7", Q("text"), "{}",
      Obj(<<Member("note", Q("nothing here"))>>),
      Nested(Q("a job"), "{}"), Nested("[1]", "{}"), Nested("7", "null"),
      "{\"position_title\": \"Engineer\"",
      "{\"position_title\": \"Engineer\",}",
      "Here is the data: {\"position_title\": \"Engineer\"} Thanks!",
      FenceJson \o "\n" \o Nested(Obj(<<Title>>), "{}") \o "\n" \o Fence,
      Fence \o "\n" \o Obj(<<Title>>) \o "\n" \o Fence \o "  ",
      "{\"a\": {\"position_title\": \"Engineer\"} and {\"company\": \"Acme\"}" }

Returns(c) == [raises |-> FALSE, content |-> c]

\* outputs that do not parse, with braces in every order and position
BoundaryResponses ==
    { "{", "}", "} {", "}{", "x}", "{x", "{bad}", "a } b { c } d", "{ } x {",
      "see {a} and {b} above", "{\"a\": 1} {\"b\": 2}", "} {\"a\": 1}",
      "{\"a\": 1} }", "note: {\"position_title\": Engineer} end",
      FenceJson \o "\n{\"position_title\": 'Engineer'}\n" \o Fence,
      "{\"position_title\": \"Engineer\"} {", "text } {\"position_title\": \"Engineer\"}" }

\* objects of neither shape: job_data and company_data absent or empty, no
\* position_title and no company key
EmptyValues == << "{}", "null", Q(""), "0", "[]", "false" >>

NeitherShapeResponses ==
    { Nested(EmptyValues[i], EmptyValues[j]) :
        i \in 1..Len(EmptyValues), j \in 1..Len(EmptyValues) }
    \cup { Obj(<<Member("job_data", EmptyValues[i]), Member("city", Q("Pune")),
                 Member("salary", Q("10 LPA"))>>) : i \in 1..Len(EmptyValues) }
    \cup { Obj(<<Member("company_data", EmptyValues[i]),
                 Member("Position_Title", Q("Engineer"))>>) : i \in 1..Len(EmptyValues) }
    \cup { Obj(<<Member("title", Q("Engineer")), Member("employer", Q("Acme")),
                 Member("application_posted", Q("2025-01-10"))>>) }

\* One flat JSON object (json, with val the members it stands for) between
\* brace-free prose and code-fence markers.
WrappedObjects ==
    { [json |-> Obj(<<Title>>),
       val  |-> ("position_title" :> Str("Engineer"))],
      [json |-> Obj(<<Member("company", Q("Acme")), Member("city", Q("Pune")),
                      Member("note", Q("a}b{c")), Member("number_of_viewed", "12")>>),
       val  |-> ("company" :> Str("Acme")) @@ ("city" :> Str("Pune"))
                @@ ("note" :> Str("a}b{c")) @@ ("number_of_viewed" :> Num(12))],
      [json |-> Obj(<<Title, Member("created_date", Q("2023-01-01")),
                      Member("categories", Arr(<<Q("IT")>>))>>),
       val  |-> ("position_title" :> Str("Engineer"))
                @@ ("created_date" :> Str("2023-01-01"))
                @@ ("categories" :> List(<<Str("IT")>>))],
      [json |-> Obj(<<Title, Member("company", Q("Acme")),
                      Member("company_url", Q(InfosysUrl)),
                      Member("job_description_roles_resp",
                             Obj(<<Member("roles", Arr(<<Q("Build")>>)),
                                   Member("responsibilities", "[]")>>))>>),
       val  |-> ("position_title" :> Str("Engineer")) @@ ("company" :> Str("Acme"))
                @@ ("company_url" :> Str(InfosysUrl))
                @@ ("job_description_roles_resp" :>
                       Dict([roles |-> List(<<Str("Build")>>),
                             responsibilities |-> List(<<>>)]))] }

ProseBefore ==
    { "", "Here is the data:\n", "  \n", FenceJson \o "\n", Fence \o "\n",
      "Sure!\n" \o FenceJson \o "\n" }

ProseAfter ==
    { "", "\nThanks!", "\n" \o Fence, "\n" \o Fence \o "\nLet me know.", " \n " }

WrappedCases ==
    { [content |-> b \o o.json \o a, json |-> o.json, val |-> o.val] :
        b \in ProseBefore, o \in WrappedObjects, a \in ProseAfter }

BaseResponses ==
    { Nested(Obj(<<Title, Member("application_posted", Q("2025-01-10"))>>), "{}"),
      Obj(<<Member("company", Q("Acme"))>>) }

ExtractInputs ==
    { [text |-> c.text, key |-> TRUE, secrets |-> "no_file", backend |-> Returns(r), today |-> d] :
        c \in RelCases, r \in BaseResponses, d \in Todays }
    \cup
    { [text |-> t, key |-> TRUE, secrets |-> "no_file", backend |-> Returns(r), today |-> d] :
        t \in NoRelTexts \cup OverflowTexts \cup {c.text : c \in MixedRelCases},
        r \in PostedResponses, d \in Todays }
    \cup
    { [text |-> t, key |-> TRUE, secrets |-> "no_file", backend |-> Returns(r), today |-> Ymd2Ord(2025, 6, 15)] :
        t \in {"Senior engineer, Bengaluru", "Posted 4 weeks ago"},
        r \in CounterResponses \cup RolesResponses \cup CompanyResponses
              \cup FlatResponses \cup SubsetResponses \cup CreatedResponses
              \cup OddResponses \cup NeitherShapeResponses
              \cup BoundaryResponses }
    \cup
    { [text |-> t, key |-> TRUE, secrets |-> "no_file", backend |-> Returns(w.content),
       today |-> Ymd2Ord(2025, 6, 15)] :
        t \in {"Senior engineer, Bengaluru", "Posted 4 weeks ago"},
        w \in WrappedCases }
    \cup
    { [text |-> "Posted 4 weeks ago", key |-> k, secrets |-> sec, backend |-> b,
       today |-> d] :
        k \in BOOLEAN, sec \in SecretsStates,
        b \in {NoBackend, Returns(Obj(<<Title>>))},
        d \in Todays }

InitExtract ==
    /\ \E i \in ExtractInputs :
          /\ x_text = i.text
          /\ x_key = i.key
          /\ x_secrets = i.secrets
          /\ x_backend = i.backend
          /\ x_today = i.today
    /\ x_ret = NoneNone(0)
    /\ x_pc = "start"
    /\ IdleValidate
    /\ InitSession
    /\ IdleStore

Extract ==
    /\ x_pc = "start"
    /\ \E api_key \in {GetApiKey(x_key, x_secrets)} :
          IF api_key.raised
          THEN /\ x_pc' = "raised"
               /\ x_ret' = x_ret
          ELSE /\ x_ret' = extract_job_data_with_llm(x_text, api_key.val,
                                                     x_backend, x_today)
               /\ x_pc' = "done"
    /\ UNCHANGED <<x_text, x_key, x_secrets, x_backend, x_today, vvars, mvars, gvars>>

NextExtract == Extract

SpecExtract == InitExtract /\ [][NextExtract]_vars

(***************************************************************************)
(* main: the Process button handler (app.py 463-483)                       *)
(***************************************************************************)
JobPostingText ==
    "About the job: Acme is hiring a Senior Software Engineer in Bengaluru, "
    \o "India. Full-time role. Responsibilities include building APIs. "
    \o "Requirements: 5 years experience. Posted 2 weeks ago. Apply now."

MainTexts ==
    { "", "  \n ", "lorem ipsum", "  Posted 4 weeks ago\n", JobPostingText,
      "Lorem ipsum dolor sit amet, a job position for an engineer role." }

MainBackends ==
    { NoBackend,
      Returns("I cannot help with that."),
      Returns(Nested(Obj(<<Title>>),
                     Obj(<<Member("name", Q("Acme")), Member("url", Q(InfosysUrl))>>))),
      Returns(Obj(<<Member("company", Q("Acme")),
                    Member("application_posted", Q("2022-07-01"))>>)),
      Returns(Nested(Obj(<<Title>>),
                     Arr([i \in 1..Len(CompanyFields) |-> Q(CompanyFields[i])]))),
      Returns(Nested(Obj(<<Title>>), "null")) }

MainCredentials ==
    { [key |-> TRUE, secrets |-> "no_file"],
      [key |-> FALSE, secrets |-> "no_key"],
      [key |-> FALSE, secrets |-> "no_file"] }

MainTodays == {Ymd2Ord(2025, 6, 15), Ymd2Ord(2026, 1, 5)}

InitMain ==
    /\ InitSession
    /\ IdleValidate
    /\ IdleExtract
    /\ IdleStore

\* The user fills the text area and presses "Process Data".
\* An exception of extract_job_data_with_llm leaves the handler (the call at
\* line 470 is in no try block): the session state stays as it was.
\* main, app.py 472-483: the branch taken on the pair that came back
ProcessBranch(r) ==
    IF Truthy(r.job) /\ Truthy(r.company) THEN "both"
    ELSE IF Truthy(r.job) THEN "job_only"
    ELSE "failed"

Process(text, env_key, secrets, backend, today) ==
    /\ store_pc = "idle"
    /\ text_area' = text
    /\ IF text = "" \/ Strip(text) = "" \/ GetApiKey(env_key, secrets).raised
       THEN /\ backend_calls' = <<>>
            /\ UNCHANGED <<processed_data, processed_company_data, insertion_success>>
       ELSE \E r \in {extract_job_data_with_llm(Strip(text),
                            GetApiKey(env_key, secrets).val, backend, today)} :
                /\ backend_calls' = IF r.calls > 0 THEN <<Strip(text)>> ELSE <<>>
                /\ CASE ProcessBranch(r) = "both" ->
                          /\ processed_data' = r.job
                          /\ processed_company_data' = r.company
                          /\ insertion_success' = FALSE
                     [] ProcessBranch(r) = "job_only" ->
                          /\ processed_data' = r.job
                          /\ processed_company_data' = Null
                          /\ insertion_success' = FALSE
                     [] OTHER ->
                          UNCHANGED <<processed_data, processed_company_data,
                                      insertion_success>>
    /\ UNCHANGED <<store_pc, job_document_id, company_document_id>>
    /\ UNCHANGED <<vvars, xvars, gvars>>

Next ==
    \E text \in MainTexts, credential \in MainCredentials,
       backend \in MainBackends, today \in MainTodays :
        Process(text, credential.key, credential.secrets, backend, today)

Spec == InitMain /\ [][Next]_vars

(***************************************************************************)
(* utils/db_connection.py: insert_job_data, insert_company_data and        *)
(* test_connection, one action per statement that can fail.  A driver call *)
(* (MongoClient, ping, list_*, insert_one, find_one, count_documents)      *)
(* either returns or raises; which it does is the environment's choice.    *)
(***************************************************************************)
required_job_fields ==
    << "application_link", "application_posted", "categories", "city",
       "company", "company_url", "country", "description", "description_full",
       "industry", "job_description_roles_resp", "job_id", "job_type",
       "location", "position_title", "remote_in_person", "required_skills",
       "salary", "start_date", "state", "created_date", "logo_url",
       "number_of_viewed", "number_of_applied", "number_of_saved" >>

required_company_fields ==
    << "name", "city", "state", "industry", "description",
       "url", "company_domain", "logo_url", "company_id" >>

\* a check that stops at the first missing field
MissingFieldsFirstOnly(required_fields, data) ==
    Bind(SelectSeq(required_fields, LAMBDA field : field \notin Keys(data)), LAMBDA missing :
        IF Len(missing) = 0 THEN missing ELSE << Head(missing) >>)

\* [field for field in required_fields if field not in data]
MissingFields(required_fields, data) ==
    SelectSeq(required_fields, LAMBDA field : field \notin Keys(data))

validate_json_structure(data) ==
    Bind(MissingFields(required_job_fields, data), LAMBDA missing_fields :
        [is_valid |-> Len(missing_fields) = 0, missing_fields |-> missing_fields])

validate_company_structure(data) ==
    Bind(MissingFields(required_company_fields, data), LAMBDA missing_fields :
        [is_valid |-> Len(missing_fields) = 0, missing_fields |-> missing_fields])

\* datetime.now().isoformat(), to the second
IsoFormat(now) == FormatDate(now) \o "T09:30:00"

\* a stamp step that forgets inserted_at
StampedNoTimestamp(fn, data, now) ==
    IF fn = "insert_job_data" /\ ~Truthy(Get(data, "created_date", Null))
    THEN Put(data, "created_date", Str(FormatDate(now)))
    ELSE data

\* db_connection.py 116-120 (job) and 183 (company)
Stamped(fn, data, now) ==
    Put(IF fn = "insert_job_data" /\ ~Truthy(Get(data, "created_date", Null))
        THEN Put(data, "created_date", Str(FormatDate(now)))
        ELSE data,
        "inserted_at", Str(IsoFormat(now)))

\* the exception an insert re-raises for one caught in its try block
\* (db_connection.py 151-156 and 208-213)
Reraised(exc) ==
    IF exc \in {"ConnectionFailure", "OperationFailure"} THEN exc ELSE "Exception"

\* where control goes when a statement of the try block raises: the except
\* and finally clauses of an insert, the except clause of test_connection
Handler(fn) == IF fn = "test_connection" THEN "except" ELSE "finally"

\* the statement after a successful get_mongo_client()
AfterConnect(fn) ==
    CASE fn = "insert_job_data" -> "list_collections"
      [] fn = "insert_company_data" -> "insert"
      [] OTHER -> "list_databases"

\* db_connection.py 159-160 and 216-217
Closed(client, open) == IF client = "client" THEN open - 1 ELSE open

NextId == Len(jobs) + Len(companies) + 1

Outcome(kind, exc, missing, id, ok) ==
    [kind |-> kind, exc |-> exc, missing |-> missing, id |-> id, ok |-> ok]

MaxStoreCalls == 2

\* control enters fn with the argument data
CallEntry(fn, data) ==
    /\ g_pc \in {"idle", "returned", "raised"}
    /\ g_calls' = g_calls + 1
    /\ g_fn' = fn
    /\ g_pc' = IF fn = "test_connection" THEN "connect" ELSE "validate"
    /\ g_data' = data
    /\ g_passed' = data
    /\ g_client' = "None"
    /\ g_open' = 0
    /\ g_id' = 0
    /\ g_exc' = ""
    /\ g_out' = NoOutcome
    /\ g_verified' = FALSE
    /\ UNCHANGED <<jobs, companies>>

StartCall(fn, data) ==
    /\ g_calls < MaxStoreCalls
    /\ CallEntry(fn, data)
    /\ UNCHANGED <<vvars, xvars, mvars>>

\* 111-113 and 178-180: raise ValueError naming the missing fields
ValidateRecord ==
    /\ g_pc = "validate"
    /\ \E v \in {IF g_fn = "insert_job_data" THEN validate_json_structure(g_data)
                 ELSE validate_company_structure(g_data)} :
          IF ~v.is_valid
          THEN /\ g_out' = Outcome("raised", "ValueError", v.missing_fields, 0, FALSE)
               /\ g_pc' = "raised"
          ELSE /\ g_out' = g_out
               /\ g_pc' = "stamp"
    /\ UNCHANGED <<g_fn, g_data, g_passed, g_client, g_open, g_id, g_exc, g_verified,
                   jobs, companies, g_calls, vvars, xvars, mvars>>

StoreNows == {Ymd2Ord(2025, 6, 15), Ymd2Ord(2026, 1, 5)}

\* 116-120 and 183: the caller's object is stamped in place
Stamp ==
    /\ g_pc = "stamp"
    /\ \E now \in StoreNows : g_data' = Stamped(g_fn, g_data, now)
    /\ g_pc' = "connect"
    /\ UNCHANGED <<g_fn, g_passed, g_client, g_open, g_id, g_exc, g_out, g_verified,
                   jobs, companies, g_calls, vvars, xvars, mvars>>

\* get_mongo_client (27-51) called at 125, 188 and 228.  MongoClient(...)
\* may raise (no client object exists then); once it has returned, the
\* client object exists whether or not the ping succeeds, and when the
\* ping raises nothing in get_mongo_client or in its callers closes it:
\* the caller's `client` is still None.
Connect ==
    /\ g_pc = "connect"
    /\ \E outcome \in {"connected", "ping_raises", "constructor_raises"} :
          CASE outcome = "connected" ->
                 /\ g_client' = "client"
                 /\ g_open' = g_open + 1
                 /\ g_exc' = g_exc
                 /\ g_pc' = AfterConnect(g_fn)
            [] outcome = "ping_raises" ->
                 /\ g_client' = g_client
                 /\ g_open' = g_open + 1
                 /\ g_exc' = "ConnectionFailure"
                 /\ g_pc' = Handler(g_fn)
            [] OTHER ->
                 /\ g_client' = g_client
                 /\ g_open' = g_open
                 /\ g_exc' = "ConnectionFailure"
                 /\ g_pc' = Handler(g_fn)
    /\ UNCHANGED <<g_fn, g_data, g_passed, g_id, g_out, g_verified,
                   jobs, companies, g_calls, vvars, xvars, mvars>>

DriverErrors == {"ConnectionFailure", "OperationFailure"}

\* a driver call that reads: it returns (control goes on to `next`) or raises
DriverRead(next) ==
    /\ \E outcome \in {"ok"} \cup DriverErrors :
          IF outcome = "ok"
          THEN g_pc' = next /\ g_exc' = g_exc
          ELSE g_pc' = Handler(g_fn) /\ g_exc' = outcome
    /\ UNCHANGED <<g_fn, g_data, g_passed, g_client, g_open, g_id, g_out, g_verified,
                   jobs, companies, g_calls, vvars, xvars, mvars>>

\* test_connection 232: client.list_database_names()
ListDatabaseNames ==
    /\ g_pc = "list_databases"
    /\ DriverRead("list_collections")

\* insert_job_data 133 and test_connection 235: db.list_collection_names()
ListCollectionNames ==
    /\ g_pc = "list_collections"
    /\ DriverRead(IF g_fn = "insert_job_data" THEN "insert" ELSE "count")

\* test_connection 240-247: count_documents on the collections that exist
CountDocuments ==
    /\ g_pc = "count"
    /\ IF Len(jobs) = 0 /\ Len(companies) = 0
       THEN /\ g_pc' = "close"
            /\ UNCHANGED <<g_fn, g_data, g_passed, g_client, g_open, g_id, g_exc, g_out,
                           g_verified, jobs, companies, g_calls, vvars, xvars, mvars>>
       ELSE DriverRead("close")

\* test_connection 249-261: client.close(), then return (True, status_msg)
CloseAndReturn ==
    /\ g_pc = "close"
    /\ g_open' = Closed(g_client, g_open)
    /\ g_out' = Outcome("returned", "", <<>>, 0, TRUE)
    /\ g_pc' = "returned"
    /\ UNCHANGED <<g_fn, g_data, g_passed, g_client, g_id, g_exc, g_verified,
                   jobs, companies, g_calls, vvars, xvars, mvars>>

\* test_connection 262-263: return (False, message); nothing is closed here
ExceptReturn ==
    /\ g_pc = "except"
    /\ g_out' = Outcome("returned", "", <<>>, 0, FALSE)
    /\ g_pc' = "returned"
    /\ UNCHANGED <<g_fn, g_data, g_passed, g_client, g_open, g_id, g_exc, g_verified,
                   jobs, companies, g_calls, vvars, xvars, mvars>>

\* 138 and 195: collection.insert_one(record).  On success the document is
\* in the collection and the record object has gained its _id; the result
\* may hold no inserted_id (the branch of lines 148-149 / 205-206).
InsertOne ==
    /\ g_pc = "insert"
    /\ \E outcome \in {"ok", "no_id"} \cup DriverErrors :
          IF outcome \in DriverErrors
          THEN /\ g_exc' = outcome
               /\ g_pc' = "finally"
               /\ UNCHANGED <<g_data, g_id, jobs, companies>>
          ELSE /\ g_exc' = g_exc
               /\ g_pc' = "verify"
               /\ g_data' = Put(g_data, "_id", Num(NextId))
               /\ g_id' = IF outcome = "ok" THEN NextId ELSE 0
               /\ IF g_fn = "insert_job_data"
                  THEN /\ jobs' = Append(jobs, Put(g_data, "_id", Num(NextId)))
                       /\ companies' = companies
                  ELSE /\ companies' = Append(companies, Put(g_data, "_id", Num(NextId)))
                       /\ jobs' = jobs
    /\ UNCHANGED <<g_fn, g_passed, g_client, g_open, g_out, g_verified, g_calls,
                   vvars, xvars, mvars>>

\* the documents of the collection the running insert writes to
Collection == IF g_fn = "insert_job_data" THEN jobs ELSE companies

\* collection.find_one({"_id": id}): the document if the read sees it, None
\* if it does not, or the read raises
FindOne(id) ==
    {"none"} \cup DriverErrors
    \cup (IF \E i \in 1..Len(Collection) : Collection[i].v["_id"] = Num(id)
          THEN {"found"} ELSE {})

\* 141-149 and 198-206
Verify ==
    /\ g_pc = "verify"
    /\ g_pc' = "finally"
    /\ IF g_id = 0
       THEN g_exc' = "Exception" /\ g_verified' = g_verified
       ELSE \E outcome \in FindOne(g_id) :
               CASE outcome = "found" -> g_exc' = g_exc /\ g_verified' = TRUE
                 [] outcome = "none"  -> g_exc' = "Exception" /\ g_verified' = g_verified
                 [] OTHER             -> g_exc' = outcome /\ g_verified' = g_verified
    /\ UNCHANGED <<g_fn, g_data, g_passed, g_client, g_open, g_id, g_out,
                   jobs, companies, g_calls, vvars, xvars, mvars>>

\* 151-160 and 208-217: re-raise what was caught, close the client if the
\* local variable holds one, then leave with the identifier or the exception
Finally ==
    /\ g_pc = "finally"
    /\ g_open' = Closed(g_client, g_open)
    /\ IF g_exc = ""
       THEN /\ g_out' = Outcome("returned", "", <<>>, g_id, TRUE)
            /\ g_pc' = "returned"
       ELSE /\ g_out' = Outcome("raised", Reraised(g_exc), <<>>, 0, FALSE)
            /\ g_pc' = "raised"
    /\ UNCHANGED <<g_fn, g_data, g_passed, g_client, g_id, g_exc, g_verified,
                   jobs, companies, g_calls, vvars, xvars, mvars>>

\* records passed to the inserts: complete ones (strings, other types, an
\* empty created_date, an extra key, the defaults of the extractor) and
\* ones with fields missing
Without(d, S) == Dict([k \in Keys(d) \ S |-> d.v[k]])

FullJobRecord == Dict([k \in Range(required_job_fields) |-> Str("x")])

FullCompanyRecord == Dict([k \in Range(required_company_fields) |-> Str("y")])

GatewayJobRecords ==
    << FullJobRecord,
       Dict([k \in Range(required_job_fields) |-> Null]),
       Put(Put(FullJobRecord, "created_date", Str("")), "bonus", Num(7)),
       Dict(default_job_structure(Ymd2Ord(2025, 6, 15))),
       Without(FullJobRecord, {"position_title"}),
       Without(FullJobRecord, {"state", "application_link", "number_of_saved"}),
       Without(FullJobRecord, {"created_date"}),
       EmptyDict >>

GatewayCompanyRecords ==
    << FullCompanyRecord,
       Dict([k \in Range(required_company_fields) |-> Num(0)]),
       Without(FullCompanyRecord, {"url"}),
       Without(FullCompanyRecord, {"company_id", "name"}),
       Dict(("inserted_at" :> Str("earlier"))) >>

InsertJobData ==
    \E i \in 1..Len(GatewayJobRecords) : StartCall("insert_job_data", GatewayJobRecords[i])

InsertCompanyData ==
    \E i \in 1..Len(GatewayCompanyRecords) :
        StartCall("insert_company_data", GatewayCompanyRecords[i])

TestConnection == StartCall("test_connection", Null)

InitStore ==
    /\ IdleStore
    /\ IdleValidate
    /\ IdleExtract
    /\ InitSession

NextStore ==
    \/ InsertJobData
    \/ InsertCompanyData
    \/ TestConnection
    \/ ValidateRecord
    \/ Stamp
    \/ Connect
    \/ ListDatabaseNames
    \/ ListCollectionNames
    \/ CountDocuments
    \/ CloseAndReturn
    \/ ExceptReturn
    \/ InsertOne
    \/ Verify
    \/ Finally

SpecStore == InitStore /\ [][NextStore]_vars

(***************************************************************************)
(* main: the "Store to MongoDB" button handler (app.py 529-561), run       *)
(* against the gateway above.  The handler waits in insert_job_data, then  *)
(* in insert_company_data; the gateway's steps are the actions above.      *)
(* The sidebar's test_connection() of every rerun only reads the store.    *)
(***************************************************************************)
MaxSessionCalls == 4

\* the handler passes the session records themselves
CopiesSkipped == FALSE

\* app.py 533-534: the handler passes .copy() of each session record
CopiesMade == TRUE

\* a session record once the insert it was stored with has ended: what the
\* insert assigned (created_date, inserted_at, _id) is in the object it was
\* passed, which is the session's object only if no copy was made
SessionRecordAfter(record) == IF CopiesMade THEN record ELSE g_data

\* app.py 492, 529-537: the button exists once a job record is held; the
\* handler starts with insert_job_data(job_data_to_insert)
StoreBegin ==
    /\ store_pc = "idle"
    /\ Truthy(processed_data)
    /\ g_calls + 2 <= MaxSessionCalls
    /\ store_pc' = "job"
    /\ job_document_id' = 0
    /\ company_document_id' = 0
    /\ CallEntry("insert_job_data", processed_data)
    /\ UNCHANGED <<text_area, processed_data, processed_company_data,
                   insertion_success, backend_calls, vvars, xvars>>

\* app.py 537-549: insert_job_data returned; the company record, if one is
\* held, is inserted next, otherwise the handler sets insertion_success
StoreJobReturned ==
    /\ store_pc = "job"
    /\ g_pc = "returned"
    /\ job_document_id' = g_out.id
    /\ processed_data' = SessionRecordAfter(processed_data)
    /\ IF Truthy(processed_company_data)
       THEN /\ store_pc' = "company"
            /\ CallEntry("insert_company_data", processed_company_data)
            /\ insertion_success' = insertion_success
       ELSE /\ store_pc' = "idle"
            /\ insertion_success' = TRUE
            /\ UNCHANGED gvars
    /\ UNCHANGED <<text_area, processed_company_data, backend_calls,
                   company_document_id, vvars, xvars>>

\* app.py 544-549: insert_company_data returned
StoreCompanyReturned ==
    /\ store_pc = "company"
    /\ g_pc = "returned"
    /\ company_document_id' = g_out.id
    /\ processed_company_data' = SessionRecordAfter(processed_company_data)
    /\ insertion_success' = TRUE
    /\ store_pc' = "idle"
    /\ UNCHANGED <<text_area, processed_data, backend_calls, job_document_id,
                   vvars, xvars, gvars>>

\* app.py 550-561: either insert raised; both except clauses only display
StoreRaised ==
    /\ store_pc \in {"job", "company"}
    /\ g_pc = "raised"
    /\ IF store_pc = "job"
       THEN /\ processed_data' = SessionRecordAfter(processed_data)
            /\ processed_company_data' = processed_company_data
       ELSE /\ processed_company_data' = SessionRecordAfter(processed_company_data)
            /\ processed_data' = processed_data
    /\ store_pc' = "idle"
    /\ UNCHANGED <<text_area, insertion_success, backend_calls, job_document_id,
                   company_document_id, vvars, xvars, gvars>>

SessionBackends ==
    { Returns("I cannot help with that."),
      Returns(Nested(Obj(<<Title>>),
                     Obj(<<Member("name", Q("Acme")), Member("url", Q(InfosysUrl))>>))) }

SessionProcess ==
    \E backend \in SessionBackends :
        Process("  Posted 4 weeks ago\n", TRUE, "no_file", backend, Ymd2Ord(2025, 6, 15))

NextSession ==
    \/ SessionProcess
    \/ StoreBegin
    \/ StoreJobReturned
    \/ StoreCompanyReturned
    \/ StoreRaised
    \/ ValidateRecord
    \/ Stamp
    \/ Connect
    \/ ListCollectionNames
    \/ InsertOne
    \/ Verify
    \/ Finally

SpecSession == InitMain /\ [][NextSession]_vars

(***************************************************************************)
(* Claims about validate_job_posting_text                                  *)
(***************************************************************************)
\* p occurs in s, letters compared without regard to case (p is lower case)
ContainsCI(s, p) ==
    \E i \in 1..(Len(s) - Len(p) + 1) :
        \A k \in 1..Len(p) : LowerChar(Ch(s, i + k - 1)) = Ch(p, k)

CountCI(xs, s) == Cardinality({i \in 1..Len(xs) : ContainsCI(s, xs[i])})

RejectShort(s) == Len(Strip(s)) < 50

RejectFewWords(s) == WordCount(s) < 20

RejectPlaceholder(s) == CountCI(invalid_indicators, s) > 0

RejectNotJob(s) == CountCI(job_keywords, s) < 3 /\ CountCI(job_patterns, s) = 0

RejectNoIndicator(s) ==
    /\ CountCI(location_indicators, s) = 0
    /\ CountCI(title_indicators, s) = 0
    /\ CountCI(job_keywords, s) < 5

\* C9: the verdict is valid exactly when none of the five rejection
\* conditions holds, whatever order they are listed in, and it is the same
\* for the text in upper case and in lower case.
C9_ValidIffNoRejection ==
    vpc = "done" =>
        /\ vresult.valid <=>
              ~(\/ RejectNoIndicator(vtext)
                \/ RejectPlaceholder(vtext)
                \/ RejectFewWords(vtext)
                \/ RejectNotJob(vtext)
                \/ RejectShort(vtext))
        /\ validate_job_posting_text(Upper(vtext)).valid = vresult.valid
        /\ validate_job_posting_text(Lower(vtext)).valid = vresult.valid

\* C9 witness: a text with upper-case letters in its keywords was accepted.
C9_Witness ==
    /\ vpc = "done"
    /\ vresult.valid
    /\ ContainsCI(vtext, "hiring")
    /\ ~Contains(vtext, "hiring")

FirstMarkerCI(s) ==
    invalid_indicators[CHOOSE i \in 1..Len(invalid_indicators) :
        /\ ContainsCI(s, invalid_indicators[i])
        /\ \A j \in 1..(i - 1) : ~ContainsCI(s, invalid_indicators[j])]

\* C10 as stated: a text of at least 50 characters that contains a
\* placeholder marker is rejected with a reason that names a marker it
\* contains.
C10_MarkerAlwaysNamed ==
    (vpc = "done" /\ RejectPlaceholder(vtext) /\ ~RejectShort(vtext)) =>
        /\ ~vresult.valid
        /\ vresult.kind = "placeholder"
        /\ ContainsCI(vtext, vresult.arg)

\* C10 amended: such a text is always rejected; the reason names the first
\* marker (in list order) it contains when it matches at least 3 job keywords
\* or a boilerplate phrase, and is the not-a-job-posting message otherwise.
C10_MarkerNamedUnlessNotJob ==
    (vpc = "done" /\ RejectPlaceholder(vtext) /\ ~RejectShort(vtext)) =>
        /\ ~vresult.valid
        /\ IF RejectNotJob(vtext)
           THEN vresult.kind = "not_a_job_posting"
           ELSE vresult.kind = "placeholder" /\ vresult.arg = FirstMarkerCI(vtext)

\* C10 witness: a rejected text that names "lorem ipsum", written with
\* capitals in the text.
C10_Witness ==
    /\ vpc = "done"
    /\ ~RejectShort(vtext)
    /\ vresult.kind = "placeholder"
    /\ vresult.arg = "lorem ipsum"
    /\ ~Contains(vtext, "lorem ipsum")

\* the number of words of s, counted at the last character of each word
NumberOfWords(s) ==
    Cardinality({i \in 1..Len(s) :
                    /\ ~IsSpace(Ch(s, i))
                    /\ (i = Len(s) \/ IsSpace(Ch(s, i + 1)))})

HoldsThreeTerms(s) ==
    /\ ContainsCI(s, "responsibilities")
    /\ ContainsCI(s, "bengaluru")
    /\ ContainsCI(s, "full-time")

\* C11 as stated: every 10-word text without a job keyword is rejected, and
\* every 200-word text of at least 50 characters without a placeholder
\* marker that holds "Responsibilities", "Bengaluru" and "Full-time" is
\* accepted, whatever its other words are.
C11_SizedTextsAnyWords ==
    vpc = "done" =>
        /\ (NumberOfWords(vtext) = 10 /\ CountCI(job_keywords, vtext) = 0)
              => ~vresult.valid
        /\ (/\ NumberOfWords(vtext) = 200
            /\ ~RejectShort(vtext)
            /\ ~RejectPlaceholder(vtext)
            /\ HoldsThreeTerms(vtext)) => vresult.valid

\* C11 amended: every 10-word text without a job keyword is rejected; such a
\* 200-word text is accepted exactly when its words match one more job
\* keyword or a boilerplate phrase, and is rejected as not a job posting
\* when "responsibilities" and "full-time" are its only keywords.
C11_SizedTextsThirdKeyword ==
    vpc = "done" =>
        /\ (NumberOfWords(vtext) = 10 /\ CountCI(job_keywords, vtext) = 0)
              => ~vresult.valid
        /\ (/\ NumberOfWords(vtext) = 200
            /\ ~RejectShort(vtext)
            /\ ~RejectPlaceholder(vtext)
            /\ HoldsThreeTerms(vtext)) =>
              IF RejectNotJob(vtext)
              THEN ~vresult.valid /\ vresult.kind = "not_a_job_posting"
              ELSE vresult.valid

\* C11 witness: a 200-word text with the three terms and a third keyword
\* was accepted.
C11_Witness ==
    /\ vpc = "done"
    /\ NumberOfWords(vtext) = 200
    /\ HoldsThreeTerms(vtext)
    /\ CountCI(job_keywords, vtext) = 3
    /\ CountCI(job_patterns, vtext) = 0
    /\ vresult.valid

(***************************************************************************)
(* Claims about extract_job_data_with_llm                                  *)
(***************************************************************************)
DocumentedJobFields ==
    { "application_link", "application_posted", "categories", "city", "state",
      "country", "location", "company", "company_url", "description",
      "description_full", "industry", "job_description_roles_resp", "job_id",
      "job_type", "position_title", "remote_in_person", "required_skills",
      "salary", "start_date", "created_date", "logo_url", "number_of_viewed",
      "number_of_applied", "number_of_saved" }

DocumentedCompanyFields ==
    { "name", "city", "state", "industry", "description", "url",
      "company_domain", "logo_url", "company_id" }

Returned == x_pc = "done" /\ x_ret.ok

\* the object the backend output parses to
SuppliedObject == ParseResponse(CleanResponse(x_backend.content)).val

SuppliedNestedJob == Get(SuppliedObject, "job_data", EmptyDict)

SuppliedNestedCompany == Get(SuppliedObject, "company_data", EmptyDict)

IsNestedShape == Truthy(SuppliedNestedJob) \/ Truthy(SuppliedNestedCompany)

\* the job object of the backend output: nested under job_data, or flat
SuppliedJob == IF IsNestedShape THEN SuppliedNestedJob ELSE SuppliedObject

\* job_data and company_data, where the backend supplied them, are objects
DocumentedShape ==
    /\ SuppliedNestedJob.t \in {"dict", "null"}
    /\ SuppliedNestedCompany.t \in {"dict", "null"}

\* C1: a returned pair built from a nested or flat backend object holds all
\* 25 job field names and all 9 company field names.
C1_SchemaComplete ==
    (Returned /\ DocumentedShape) =>
        /\ Cardinality(DocumentedJobFields) = 25
        /\ IsDict(x_ret.job)
        /\ DocumentedJobFields \subseteq Keys(x_ret.job)
        /\ Cardinality(DocumentedCompanyFields) = 9
        /\ IsDict(x_ret.company)
        /\ DocumentedCompanyFields \subseteq Keys(x_ret.company)

\* C1 witness: the backend supplied one job field and one company field, and
\* the pair was returned.
C1_Witness ==
    /\ Returned
    /\ IsNestedShape
    /\ Keys(SuppliedNestedJob) = {"industry"}
    /\ IsDict(SuppliedNestedCompany)
    /\ Cardinality(Keys(SuppliedNestedCompany)) = 1
    /\ DocumentedJobFields \subseteq Keys(x_ret.job)

\* C2: created_date of a returned job record is the processing date.
C2_CreatedDateIsToday ==
    Returned =>
        /\ x_ret.job.v["created_date"] = Str(FormatDate(x_today))
        /\ x_today = Ymd2Ord(2025, 6, 15) =>
              x_ret.job.v["created_date"] = Str("2025-06-15")
        /\ x_today = Ymd2Ord(2024, 3, 1) =>
              x_ret.job.v["created_date"] = Str("2024-03-01")

\* C2 witness: the backend supplied created_date 2023-01-01 and the record
\* was returned.
C2_Witness ==
    /\ Returned
    /\ "created_date" \in Keys(SuppliedJob)
    /\ SuppliedJob.v["created_date"] = Str("2023-01-01")
    /\ x_ret.job.v["created_date"] = Str("2025-06-15")

\* C3: with a relative expression in the raw text, application_posted of a
\* returned record is today minus the days of the highest-priority unit
\* (weeks, months, days, years), whatever the backend supplied.
C3_RelativeDateResolved ==
    /\ \A c \in RelCases :
          (Returned /\ x_text = c.text) =>
              x_ret.job.v["application_posted"] = Str(FormatDate(x_today - c.days))
    /\ (Returned /\ x_today = Ymd2Ord(2025, 6, 15)) =>
          /\ x_text = "Posted 4 weeks ago" =>
                x_ret.job.v["application_posted"] = Str("2025-05-18")
          /\ x_text = "Posted 2 days ago" =>
                x_ret.job.v["application_posted"] = Str("2025-06-13")
          /\ x_text = "Posted 1 month ago" =>
                x_ret.job.v["application_posted"] = Str("2025-05-16")
          /\ x_text = "Posted 1 year ago" =>
                x_ret.job.v["application_posted"] = Str("2024-06-15")
          /\ x_text = "Reposted 1 month ago. First listed 3 weeks ago." =>
                x_ret.job.v["application_posted"] = Str("2025-05-25")
    /\ (Returned /\ x_today = Ymd2Ord(2024, 3, 1)) =>
          /\ x_text = "Posted 1 day ago" =>
                x_ret.job.v["application_posted"] = Str("2024-02-29")
          /\ x_text = "Posted 9 weeks ago" =>
                x_ret.job.v["application_posted"] = Str("2023-12-29")

\* C3 witness: months come first in the text, weeks win, and the value the
\* backend supplied is replaced.
C3_Witness ==
    /\ Returned
    /\ x_text = "Reposted 1 month ago. First listed 3 weeks ago."
    /\ x_today = Ymd2Ord(2025, 6, 15)
    /\ "application_posted" \in Keys(SuppliedJob)
    /\ SuppliedJob.v["application_posted"] = Str("2025-01-10")
    /\ x_ret.job.v["application_posted"] = Str("2025-05-25")

NoRelativeExpression(s) ==
    \A u \in Units : ~SearchRelative(Lower(s), u).found

\* a YYYY-MM-DD date below the recency floor
IsStaleDate(x) ==
    /\ x.t = "str"
    /\ IsDateShaped(x.v)
    /\ Strptime(x.v).ok
    /\ Strptime(x.v).year < 2024

\* C4: with no relative expression in the text, a backend date below the
\* recency floor is discarded and application_posted is the default "".
C4_StaleDateDiscarded ==
    (/\ Returned
     /\ NoRelativeExpression(x_text)
     /\ "application_posted" \in Keys(SuppliedJob)
     /\ IsStaleDate(SuppliedJob.v["application_posted"])) =>
        x_ret.job.v["application_posted"] = Str("")

Counters == {"number_of_viewed", "number_of_applied", "number_of_saved"}

\* C5: the three counters of a returned job record are integers >= 0.
C5_CountersAreNaturals ==
    Returned =>
        \A c \in Counters :
            /\ x_ret.job.v[c].t = "int"
            /\ x_ret.job.v[c].v >= 0

RolesKeys == {"roles", "responsibilities"}

\* C6: job_description_roles_resp of a returned record is an object with
\* both keys; a supplied value that is no object becomes the default object,
\* a missing sub-key becomes an empty sequence.
C6_RolesWellFormed ==
    Returned =>
        LET r == x_ret.job.v["job_description_roles_resp"]
        IN  /\ IsDict(r)
            /\ RolesKeys \subseteq Keys(r)
            /\ "job_description_roles_resp" \in Keys(SuppliedJob) =>
                  LET given == SuppliedJob.v["job_description_roles_resp"]
                  IN  IF IsDict(given)
                      THEN \A k \in RolesKeys \ Keys(given) : r.v[k] = List(<<>>)
                      ELSE r = Dict([roles |-> List(<<>>),
                                     responsibilities |-> List(<<>>)])

\* C6 witness: the backend supplied only "roles"; "responsibilities" was
\* added as an empty sequence.
C6_Witness ==
    /\ Returned
    /\ "job_description_roles_resp" \in Keys(SuppliedJob)
    /\ IsDict(SuppliedJob.v["job_description_roles_resp"])
    /\ Keys(SuppliedJob.v["job_description_roles_resp"]) = {"roles"}
    /\ x_ret.job.v["job_description_roles_resp"].v["responsibilities"] = List(<<>>)
    /\ x_ret.job.v["job_description_roles_resp"].v["roles"] = List(<<Str("Dev")>>)

\* some string field of record d contains s
Mentions(d, s) ==
    \E k \in Keys(d) : d.v[k].t = "str" /\ Contains(d.v[k].v, s)

\* C7: company_domain of a returned company record is the bare domain of
\* url, else of an email address in the record, else "".
C7_DomainDerived ==
    (Returned /\ IsDict(x_ret.company)) =>
        LET url    == x_ret.company.v["url"]
            domain == x_ret.company.v["company_domain"]
        IN  /\ url = Str("https://www.infosys.com/careers") =>
                  domain = Str("infosys.com")
            /\ (url = Str("") /\ Mentions(x_ret.company, "hr@animaker.com")) =>
                  domain = Str("animaker.com")
            /\ (url = Str("") /\ ~Mentions(x_ret.company, "@")) =>
                  domain = Str("")
            /\ domain.t = "str" =>
                  /\ ~Contains(domain.v, "://")
                  /\ ~StartsWith(domain.v, "www.")
                  /\ ~Contains(domain.v, "/")

(***************************************************************************)
(* Claims about main                                                       *)
(***************************************************************************)
\* C8: every text the Process run sent to the backend is a text that
\* validate_job_posting_text accepts.
C8_BackendOnlyAfterValidation ==
    \A i \in 1..Len(backend_calls) :
        validate_job_posting_text(backend_calls[i]).valid

\* the documented default of a job field
DocumentedDefault(k, today) ==
    CASE k = "categories" -> List(<<>>)
      [] k = "job_description_roles_resp" ->
            Dict([roles |-> List(<<>>), responsibilities |-> List(<<>>)])
      [] k = "created_date" -> Str(FormatDate(today))
      [] k \in Counters -> Num(0)
      [] OTHER -> Str("")

\* the wrapped case the backend output of this state was built from
IsWrapped(w) ==
    /\ x_pc = "done"
    /\ x_key
    /\ ~x_backend.raises
    /\ x_backend.content = w.content

\* the company record of a flat object: name, city, state, industry, url and
\* logo_url taken from the object, the rest empty
FlatCompanyOf(val) ==
    LET from(k) == IF k \in DOMAIN val THEN val[k] ELSE Str("")
    IN  [name |-> from("company"), city |-> from("city"), state |-> from("state"),
         industry |-> from("industry"), description |-> Str(""),
         url |-> from("company_url"), company_domain |-> Str(""),
         logo_url |-> from("logo_url"), company_id |-> Str("")]

SameCompany(w) ==
    /\ IsDict(x_ret.company)
    /\ Keys(x_ret.company) = DocumentedCompanyFields
    /\ \A k \in DocumentedCompanyFields :
          PyEq(x_ret.company.v[k], FlatCompanyOf(w.val)[k])

IsNeitherShape ==
    /\ x_key
    /\ ~x_backend.raises
    /\ ParseResponse(CleanResponse(x_backend.content)).ok
    /\ IsDict(SuppliedObject)
    /\ ~IsNestedShape
    /\ "position_title" \notin Keys(SuppliedObject)
    /\ "company" \notin Keys(SuppliedObject)

\* C13: an object of neither shape gives (None, None), not a record of
\* defaults.
C13_NeitherShapeNoRecord ==
    (x_pc = "done" /\ IsNeitherShape) =>
        /\ ~x_ret.ok
        /\ x_ret.job = Null
        /\ x_ret.company = Null

\* C13 witness: an object with other keys only (city, salary, an empty
\* job_data) was answered with (None, None).
C13_Witness ==
    /\ x_pc = "done"
    /\ IsNeitherShape
    /\ "city" \in Keys(SuppliedObject)
    /\ "job_data" \in Keys(SuppliedObject)
    /\ ~x_ret.ok

\* the call fails: no credential, the backend call raises, the output is
\* not JSON after the repair attempt, or the parsed value, its job_data or
\* its company_data is not an object
MissingCredential == ~x_key /\ x_secrets # "key"

ExtractionFails ==
    \/ MissingCredential
    \/ x_backend.raises
    \/ ~ParseResponse(CleanResponse(x_backend.content)).ok
    \/ ~IsDict(SuppliedObject)
    \/ ~DocumentedShape

\* C14: every failing call returns (None, None); none raises and none
\* returns a record.
C14_FailuresReturnNoneNone ==
    (x_pc \in {"done", "raised"} /\ ExtractionFails) =>
        /\ x_pc = "done"
        /\ ~x_ret.ok
        /\ x_ret.job = Null
        /\ x_ret.company = Null

CredentialPresent == x_key \/ x_secrets = "key"

HasOrderedBraces(s) ==
    \E i \in 1..Len(s) : \E j \in (i + 1)..Len(s) : Ch(s, i) = "{" /\ Ch(s, j) = "}"

\* C19: when the first parse of the cleaned text fails, the object-boundary
\* retry is made exactly when the text has a "{" before a "}", and then the
\* first "{" is the first character and the last "}" the last one, the text
\* parsed again is the text of the first attempt, the retry fails as well
\* and no record is returned.
C19_RetryReparsesSameText ==
    (x_pc = "done" /\ CredentialPresent /\ ~x_backend.raises) =>
        \E jt \in {CleanResponse(x_backend.content)} :
        \E p \in {ParseResponse(jt)} :
            /\ p.retried <=> (~json_loads(jt).ok /\ HasOrderedBraces(jt))
            /\ p.retried =>
                  /\ Ch(jt, 1) = "{"
                  /\ Ch(jt, Len(jt)) = "}"
                  /\ p.reparsed = jt
                  /\ ~p.ok
                  /\ ~x_ret.ok

\* C19 witness: prose around an unparseable object was trimmed, the first
\* parse failed and the retry was made
C19_Witness ==
    /\ x_pc = "done"
    /\ CredentialPresent
    /\ x_backend.content = "note: {\"position_title\": Engineer} end"
    /\ CleanResponse(x_backend.content) = "{\"position_title\": Engineer}"
    /\ ParseResponse(CleanResponse(x_backend.content)).retried
    /\ ~x_ret.ok


\* C20: extract_job_data_with_llm hands back either a non-empty job record
\* with a non-empty company value, or nothing for both, so main never takes
\* its "company data is missing" branch on the result; this covers outputs
\* with job_data only, with company_data only and with company_data null.
C20_CompanyNeverMissing ==
    x_pc = "done" =>
        IF x_ret.ok
        THEN /\ IsDict(x_ret.job)
             /\ Keys(x_ret.job) # {}
             /\ x_ret.company.t # "null"
             /\ Truthy(x_ret.company)
             /\ ProcessBranch(x_ret) = "both"
        ELSE /\ x_ret.job.t = "null"
             /\ x_ret.company.t = "null"
             /\ ProcessBranch(x_ret) = "failed"

\* C20 witness: the output held job_data only and a complete company record
\* came back with the job record
C20_Witness ==
    /\ x_pc = "done"
    /\ x_backend.content = Obj(<<Member("job_data", Obj(<<Title>>))>>)
    /\ x_ret.ok
    /\ IsDict(x_ret.company)
    /\ Keys(x_ret.company) = Range(CompanyFields)
    /\ ProcessBranch(x_ret) = "both"


\* the company object of the backend output; the flat shape has none, its
\* company record is built by the program
SuppliedCompany == IF IsNestedShape THEN SuppliedNestedCompany ELSE EmptyDict

\* the raw text holds "<digits> <unit>[s] ago" for one of the four units
HasRelativeExpression(text) ==
    \E unit \in {"week", "month", "day", "year"} :
        SearchRelative(Lower(text), unit).found

\* what the returned job record holds for a supplied field that falls under
\* one of the three exceptions
IsExcepted(k, given) ==
    \/ k = "created_date"
    \/ k = "application_posted" /\ HasRelativeExpression(x_text)
    \/ k = "job_description_roles_resp" /\ ~IsDict(given)

ExceptedValue(k, given) ==
    CASE k = "created_date" -> Str(FormatDate(x_today))
      [] k = "application_posted" -> parse_relative_date(x_text, given, x_today).val
      [] OTHER -> Dict([roles |-> List(<<>>), responsibilities |-> List(<<>>)])

\* every supplied company field is returned with its value
CompanyFieldsKept ==
    \E given \in {SuppliedCompany} :
        IsDict(given) =>
            \A k \in Keys(given) :
                /\ k \in Keys(x_ret.company)
                /\ PyEq(x_ret.company.v[k], given.v[k])

\* a supplied roles object came back with its own entries and, for each of
\* "roles" and "responsibilities" it lacked, an empty list
RolesOnlyGained(given, got) ==
    /\ IsDict(got)
    /\ Keys(got) = Keys(given) \cup {"roles", "responsibilities"}
    /\ \A k \in Keys(got) :
          PyEq(got.v[k], IF k \in Keys(given) THEN given.v[k] ELSE List(<<>>))

\* C21 as stated: every field the backend supplied in the job or company
\* object is returned with the backend's value, schema key or not, except
\* created_date (today), application_posted when the raw text holds a
\* relative date expression (the resolved date) and a
\* job_description_roles_resp that is no object (the default object).
C21_SuppliedFieldsUnchanged ==
    Returned =>
        /\ \E given \in {SuppliedJob} :
              \A k \in Keys(given) :
                  /\ k \in Keys(x_ret.job)
                  /\ PyEq(x_ret.job.v[k],
                          IF IsExcepted(k, given.v[k])
                          THEN ExceptedValue(k, given.v[k])
                          ELSE given.v[k])
        /\ CompanyFieldsKept

\* C21 amended: as above, and a job_description_roles_resp that is an
\* object is a fourth exception: it keeps its own entries and gains an empty
\* list for whichever of "roles" and "responsibilities" it lacks.
C21_SuppliedFieldsOnlyGain ==
    Returned =>
        /\ \E given \in {SuppliedJob} :
              \A k \in Keys(given) :
                  /\ k \in Keys(x_ret.job)
                  /\ IF IsExcepted(k, given.v[k])
                     THEN PyEq(x_ret.job.v[k], ExceptedValue(k, given.v[k]))
                     ELSE IF k = "job_description_roles_resp"
                     THEN RolesOnlyGained(given.v[k], x_ret.job.v[k])
                     ELSE PyEq(x_ret.job.v[k], given.v[k])
        /\ CompanyFieldsKept

\* C21 witness: with "Posted 4 weeks ago" as raw text, a supplied counter of
\* null and a key outside the schema came back as supplied, created_date and
\* application_posted were replaced, the roles object gained
\* "responsibilities", and the company record kept its supplied name and
\* its key outside the schema.
C21_Witness ==
    /\ Returned
    /\ x_text = "Posted 4 weeks ago"
    /\ {"bonus", "number_of_saved", "created_date"} \subseteq Keys(SuppliedJob)
    /\ x_ret.job.v["bonus"] = Bool(TRUE)
    /\ x_ret.job.v["number_of_saved"] = Null
    /\ SuppliedJob.v["created_date"] = Str("2023-01-01")
    /\ x_ret.job.v["created_date"] = Str(FormatDate(x_today))
    /\ SuppliedJob.v["application_posted"] = Str("2025-01-10")
    /\ x_ret.job.v["application_posted"] = Str(FormatDate(x_today - 28))
    /\ Keys(SuppliedJob.v["job_description_roles_resp"]) = {"roles"}
    /\ Keys(x_ret.job.v["job_description_roles_resp"]) = {"roles", "responsibilities"}
    /\ "founded" \in Keys(SuppliedCompany)
    /\ x_ret.company.v["founded"] = Num(1999)
    /\ x_ret.company.v["name"] = Str("Acme")


(***************************************************************************)
(* Claims about utils/db_connection.py (SpecStore)                         *)
(***************************************************************************)
IsInsert == g_fn \in {"insert_job_data", "insert_company_data"}

RequiredNames ==
    IF g_fn = "insert_job_data" THEN Range(required_job_fields)
    ELSE Range(required_company_fields)

SameRecord(a, b) ==
    /\ Keys(a) = Keys(b)
    /\ \A k \in Keys(a) : PyEq(a.v[k], b.v[k])

\* C16: an insert called with a record that lacks a required field name
\* raises ValueError listing exactly the absent names, having opened no
\* connection, written no document and left the record as it was passed
\* (so without inserted_at); a record that holds every required name gets
\* past validation whatever its values are; no stored document lacks a
\* required name.
C16_ValidationBeforeAnyEffect ==
    /\ (IsInsert /\ g_pc # "validate") =>
          IF RequiredNames \subseteq Keys(g_passed)
          THEN g_out.exc # "ValueError"
          ELSE /\ g_pc = "raised"
               /\ g_out.kind = "raised"
               /\ g_out.exc = "ValueError"
               /\ Range(g_out.missing) = RequiredNames \ Keys(g_passed)
               /\ Len(g_out.missing) = Cardinality(RequiredNames \ Keys(g_passed))
               /\ g_open = 0
               /\ g_client = "None"
               /\ g_id = 0
               /\ SameRecord(g_data, g_passed)
    /\ \A i \in 1..Len(jobs) : Range(required_job_fields) \subseteq Keys(jobs[i])
    /\ \A i \in 1..Len(companies) : Range(required_company_fields) \subseteq Keys(companies[i])

\* C16 witness: a job record lacking three required names has been refused
\* after an earlier call stored a document
C16_Witness ==
    /\ g_fn = "insert_job_data"
    /\ g_pc = "raised"
    /\ g_out.exc = "ValueError"
    /\ Len(g_out.missing) = 3
    /\ Len(jobs) + Len(companies) = 1


\* C17: once insert_job_data, insert_company_data or test_connection has
\* returned or raised, no client created during the call is still open.
C17_NoClientLeftOpen ==
    g_pc \in {"returned", "raised"} => g_open = 0


\* the documents with identifier id in the two collections
Written(id) ==
    {i \in 1..Len(jobs) : PyEq(jobs[i].v["_id"], Num(id))}
    \cup {Len(jobs) + i : i \in {j \in 1..Len(companies) : PyEq(companies[j].v["_id"], Num(id))}}

\* C18: an insert that has returned hands back an identifier under which a
\* document was written and then found by the re-read; an insert whose
\* write gave no identifier or whose re-read found nothing has raised; and
\* every document in either collection has an inserted_at field.
C18_IdOnlyAfterVerifiedWrite ==
    /\ (IsInsert /\ g_pc = "returned") =>
          /\ g_out.kind = "returned"
          /\ g_out.id # 0
          /\ g_out.id = g_id
          /\ Written(g_out.id) # {}
          /\ g_verified
    /\ (IsInsert /\ g_pc \in {"returned", "raised"} /\ g_out.exc # "ValueError"
            /\ (g_id = 0 \/ ~g_verified)) =>
          /\ g_pc = "raised"
          /\ g_out.kind = "raised"
          /\ g_out.id = 0
    /\ \A i \in 1..Len(jobs) : "inserted_at" \in Keys(jobs[i])
    /\ \A i \in 1..Len(companies) : "inserted_at" \in Keys(companies[i])

\* C18 witness: a company insert has returned the identifier of a document
\* that was written and re-read, after a job insert whose re-read found
\* nothing had raised
C18_Witness ==
    /\ g_fn = "insert_company_data"
    /\ g_pc = "returned"
    /\ g_out.id = 2
    /\ g_verified
    /\ Len(jobs) = 1
    /\ Len(companies) = 1


(***************************************************************************)
(* Claims about the Store handler of main (SpecSession)                    *)
(***************************************************************************)
\* the collection holds a document with this identifier
HoldsId(collection, id) ==
    \E i \in 1..Len(collection) : collection[i].v["_id"] = Num(id)

\* the document is the record with inserted_at and _id added
StoredCopyOf(document, record) ==
    /\ Keys(document) = Keys(record) \cup {"inserted_at", "_id"}
    /\ {"inserted_at", "_id"} \cap Keys(record) = {}
    /\ \A k \in Keys(record) : PyEq(document.v[k], record.v[k])

\* the handler leaves the company insert through its except clause
CompanyInsertFailed ==
    /\ store_pc = "company"
    /\ g_pc = "raised"
    /\ store_pc' = "idle"

====
